---- MODULE Spec2Model ----
(***************************************************************************)
(* Templonix Lite: the FAISS-backed memory store (SimpleFAISSMemory), the  *)
(* knowledge ingestion pipeline (KnowledgeLoader) and its chunker.         *)
(*                                                                         *)
(* Conventions.  Text is a sequence of one-character strings.  Python's    *)
(* None is the empty sequence where a value is optional; an ISO timestamp  *)
(* is <<t>> for the clock reading t.  utility_score is in hundredths       *)
(* (0.8 is 80).  An id "{namespace}_{n}_{t}" is the triple <<ns, n, t>>.   *)
(* List positions are 1-based here and 0-based in the source; ordinals     *)
(* taken from len() are kept as the source computes them.                  *)
(***************************************************************************)
EXTENDS Integers, Sequences, FiniteSets, TLC

VARIABLES
    index,      \* SimpleFAISSMemory.index: the vectors, in insertion order
    documents,  \* SimpleFAISSMemory.documents
    metadata,   \* SimpleFAISSMemory.metadata
    disk,       \* the three snapshot files under db_path
    now,        \* the clock, in unix seconds
    call,       \* the last call made: its inputs and its outcome
    ck,         \* one run of KnowledgeLoader._chunk_text: its locals
    adds,       \* the add_memory calls in progress: their position and locals
    rt,         \* one call of a function wrapped by with_retry: the wrapper's locals
    files,      \* the supported documents under knowledge_dir: path -> text
    manifest,   \* KnowledgeLoader.manifest
    manifestFile \* knowledge_dir/.knowledge_manifest.json

storeVars == <<index, documents, metadata, disk, now, call>>
loaderVars == <<files, manifest, manifestFile>>
vars ==
    <<index, documents, metadata, disk, now, call, ck, adds, rt, files, manifest,
      manifestFile>>

(***************************************************************************)
(* Bounds of the model.                                                    *)
(***************************************************************************)
MaxEntries == 2
MaxTime == 1
MaxAccess == 1
MaxLen == 5
MaxTierEntries == 1
MaxDiskEntries == 1
MaxChunkSize == 3
MaxKnowledge == 3
MaxSearchEntries == 4
MaxThreadEntries == 2
MaxRebuildEntries == 3
MaxRetries == 3

(***************************************************************************)
(* Program constants.                                                      *)
(***************************************************************************)
SacredMin == 80
ActiveMin == 30
DefaultKnowledgeUtility == 75
DefaultMemoryUtility == 50
OverFetch == 3
max_results == 5
initial_utility_score == 75

None == <<>>
NoNamespace == "None"
Namespaces == {"memory", "knowledge"}
Tiers == {"Sacred", "Active", "Archival"}

Min(a, b) == IF a <= b THEN a ELSE b

(***************************************************************************)
(* The embedding provider and the index's metric.  encode() is a           *)
(* deterministic map from text to a unit vector; IndexFlatIP scores by     *)
(* inner product.                                                          *)
(***************************************************************************)
Encode(content) ==
    IF content # <<>> /\ content[1] = "a" THEN <<1, 0>> ELSE <<0, 1>>

InnerProduct(u, v) == u[1] * v[1] + u[2] * v[2]

NoMatch == 0

Perms(n) ==
    {p \in [1..n -> 1..n] : \A i, j \in 1..n : i # j => p[i] # p[j]}

\* faiss index.search(q, k): the k nearest positions by inner product, best
\* first, padded with the "no match" id when the index holds fewer than k.
\* The order among equal scores is the library's: any is possible.
IndexSearch(idx, q, k) ==
    LET n == Len(idx)
        m == Min(k, n)
        ranked == {p \in Perms(n) : \A i \in 1..n : \A j \in 1..n :
                      i < j => InnerProduct(q, idx[p[i]]) >= InnerProduct(q, idx[p[j]])}
    IN  {[j \in 1..k |-> IF j <= m THEN <<InnerProduct(q, idx[p[j]]), p[j]>>
                                   ELSE <<-1, NoMatch>>] : p \in ranked}

(***************************************************************************)
(* Persistence: _save_data and _load_existing_data.                        *)
(***************************************************************************)
Absent == [st |-> "absent"]
Corrupt == [st |-> "corrupt"]
File(data) == [st |-> "ok", data |-> data]

NoSnapshot == [index |-> Absent, metadata |-> Absent, documents |-> Absent]

\* faiss.write_index / read_index
WriteIndex(idx) == [ntotal |-> Len(idx), xb |-> idx]
ReadIndex(f) == f.xb

\* json.dump / json.load of the metadata list: None is written as null
JsonValue(k, v) ==
    IF k = "last_accessed"
    THEN IF v = None THEN [null |-> TRUE] ELSE [string |-> v]
    ELSE [value |-> v]
PyValue(k, j) ==
    IF k = "last_accessed"
    THEN IF "null" \in DOMAIN j THEN None ELSE j.string
    ELSE j.value
JsonDump(md) ==
    [i \in 1..Len(md) |-> [k \in DOMAIN md[i] |-> JsonValue(k, md[i][k])]]
JsonLoad(js) ==
    [i \in 1..Len(js) |-> [k \in DOMAIN js[i] |-> PyValue(k, js[i][k])]]

\* pickle.dump / pickle.load of the documents list
PickleDump(docs) == [list |-> docs]
PickleLoad(p) == p.list

\* The ways one _save_data call can end: "ok", or an exception at the write
\* of one of the three files, which leaves that file as it was (the open
\* failed) or truncated (the write failed), the files before it rewritten
\* and the files after it untouched.
SaveOutcomes ==
    {"ok", "index_unopened", "index_partial", "metadata_unopened",
     "metadata_partial", "documents_unopened", "documents_partial"}

\* The ways a call can end that the store does not decide: encode() raises,
\* or it returns and the save that follows ends in one of SaveOutcomes.
EncodeRaises == "encode_raises"
Outcomes == {EncodeRaises} \cup SaveOutcomes

\* (mutant) the documents file is never rewritten
_save_data_NoDocuments(idx, md, docs, d, outcome) ==
    IF outcome \in {"index_unopened", "index_partial"} THEN d
    ELSE IF outcome \in {"metadata_unopened", "metadata_partial"}
    THEN [d EXCEPT !.index = File(WriteIndex(idx))]
    ELSE [d EXCEPT !.index = File(WriteIndex(idx)), !.metadata = File(JsonDump(md))]

\* (mutant) a file an earlier save left truncated is not written again
_save_data_SkipsDamaged(idx, md, docs, d, outcome) ==
    LET d1 == IF outcome = "index_unopened" \/ d.index = Corrupt THEN d
              ELSE IF outcome = "index_partial" THEN [d EXCEPT !.index = Corrupt]
              ELSE [d EXCEPT !.index = File(WriteIndex(idx))]
        d2 == IF outcome \in {"index_unopened", "index_partial", "metadata_unopened"}
                 \/ d.metadata = Corrupt
              THEN d1
              ELSE IF outcome = "metadata_partial" THEN [d1 EXCEPT !.metadata = Corrupt]
              ELSE [d1 EXCEPT !.metadata = File(JsonDump(md))]
        d3 == IF d.documents = Corrupt THEN d2
              ELSE IF outcome = "ok"
              THEN [d2 EXCEPT !.documents = File(PickleDump(docs))]
              ELSE IF outcome = "documents_partial" THEN [d2 EXCEPT !.documents = Corrupt]
              ELSE d2
    IN  d3

_save_data(idx, md, docs, d, outcome) ==
    LET d1 == IF outcome = "index_unopened" THEN d
              ELSE IF outcome = "index_partial" THEN [d EXCEPT !.index = Corrupt]
              ELSE [d EXCEPT !.index = File(WriteIndex(idx))]
        d2 == IF outcome \in {"index_unopened", "index_partial", "metadata_unopened"} THEN d1
              ELSE IF outcome = "metadata_partial" THEN [d1 EXCEPT !.metadata = Corrupt]
              ELSE [d1 EXCEPT !.metadata = File(JsonDump(md))]
        d3 == IF outcome = "ok"
              THEN [d2 EXCEPT !.documents = File(PickleDump(docs))]
              ELSE IF outcome = "documents_partial" THEN [d2 EXCEPT !.documents = Corrupt]
              ELSE d2
    IN  d3

EmptyStore == [index |-> <<>>, metadata |-> <<>>, documents |-> <<>>]

\* (mutant) the except branch does not reset what was read before the failure
_load_existing_data_NoReset(d) ==
    IF d.index = Absent \/ d.metadata = Absent \/ d.documents = Absent
    THEN EmptyStore
    ELSE IF d.index = Corrupt THEN EmptyStore
    ELSE IF d.metadata = Corrupt
    THEN [EmptyStore EXCEPT !.index = ReadIndex(d.index.data)]
    ELSE IF d.documents = Corrupt
    THEN [EmptyStore EXCEPT !.index = ReadIndex(d.index.data),
                            !.metadata = JsonLoad(d.metadata.data)]
    ELSE [index |-> ReadIndex(d.index.data),
          metadata |-> JsonLoad(d.metadata.data),
          documents |-> PickleLoad(d.documents.data)]

_load_existing_data(d) ==
    IF d.index = Absent \/ d.metadata = Absent \/ d.documents = Absent
    THEN EmptyStore
    ELSE IF d.index = Corrupt \/ d.metadata = Corrupt \/ d.documents = Corrupt
    THEN EmptyStore
    ELSE [index |-> ReadIndex(d.index.data),
          metadata |-> JsonLoad(d.metadata.data),
          documents |-> PickleLoad(d.documents.data)]

(***************************************************************************)
(* add_memory                                                              *)
(***************************************************************************)
Pop(kwargs, key, default) == IF key \in DOMAIN kwargs THEN kwargs[key] ELSE default
Without(kwargs, key) == [k \in DOMAIN kwargs \ {key} |-> kwargs[k]]

\* (mutant) the thresholds are exclusive
TierOf_Exclusive(utility_score) ==
    IF utility_score > SacredMin THEN "Sacred"
    ELSE IF utility_score > ActiveMin THEN "Active"
    ELSE "Archival"

TierOf(utility_score) ==
    IF utility_score >= SacredMin THEN "Sacred"
    ELSE IF utility_score >= ActiveMin THEN "Active"
    ELSE "Archival"

NewId(namespace, docs, t) == <<namespace, Len(docs), t>>

NewMetadata(content, namespace, kwargs, docs, t) ==
    LET memory_id == NewId(namespace, docs, t)
        default_utility == IF namespace = "knowledge" THEN DefaultKnowledgeUtility
                           ELSE DefaultMemoryUtility
        utility_score == Pop(kwargs, "utility_score", default_utility)
        kwargs1 == Without(kwargs, "utility_score")
        tier == Pop(kwargs1, "tier", TierOf(utility_score))
        kwargs2 == Without(kwargs1, "tier")
    IN  kwargs2 @@ [id |-> memory_id,
                    namespace |-> namespace,
                    timestamp |-> <<t>>,
                    content_length |-> Len(content),
                    utility_score |-> utility_score,
                    tier |-> tier,
                    access_count |-> 0,
                    last_accessed |-> None]

\* The store as one value, and the store after one add_memory call that
\* returns: the vector, the metadata record and the document are appended and
\* _save_data runs
Store == [index |-> index, metadata |-> metadata, documents |-> documents, disk |-> disk]

\* (mutant) a failed save undoes the appends
AddEntry_RollsBack(st, content, namespace, kwargs, t, outcome) ==
    LET index1 == Append(st.index, Encode(content))
        metadata1 == Append(st.metadata,
                            NewMetadata(content, namespace, kwargs, st.documents, t))
        documents1 == Append(st.documents, content)
        disk1 == _save_data(index1, metadata1, documents1, st.disk, outcome)
    IN  IF outcome = "ok"
        THEN [index |-> index1, metadata |-> metadata1, documents |-> documents1,
              disk |-> disk1]
        ELSE [st EXCEPT !.disk = disk1]

AddEntry(st, content, namespace, kwargs, t, outcome) ==
    LET index1 == Append(st.index, Encode(content))
        meta == NewMetadata(content, namespace, kwargs, st.documents, t)
        metadata1 == Append(st.metadata, meta)
        documents1 == Append(st.documents, content)
    IN  [index |-> index1, metadata |-> metadata1, documents |-> documents1,
         disk |-> _save_data(index1, metadata1, documents1, st.disk, outcome)]

add_memory(content, namespace, kwargs, outcome) ==
    /\ IF outcome = EncodeRaises
       THEN /\ call' = [op |-> "add", content |-> content, namespace |-> namespace,
                        kwargs |-> kwargs, raised |-> TRUE, save |-> "none"]
            /\ UNCHANGED <<index, documents, metadata, disk>>
       ELSE LET new == AddEntry(Store, content, namespace, kwargs, now, outcome)
            IN  /\ index' = new.index
                /\ metadata' = new.metadata
                /\ documents' = new.documents
                /\ disk' = new.disk
                /\ call' = [op |-> "add", content |-> content, namespace |-> namespace,
                            kwargs |-> kwargs, raised |-> FALSE, save |-> outcome,
                            id |-> NewId(namespace, documents, now)]
    /\ UNCHANGED now

(***************************************************************************)
(* add_memory statement by statement.  The method takes no lock, so a      *)
(* second call can run between any two statements of a first one.  Each    *)
(* call in progress keeps its locals: content, namespace, embedding,       *)
(* memory_id and the metadata record.  The tool handlers of the server     *)
(* call the store from one event loop, one call after the other; a caller  *)
(* that does not is free to start a call while another is in progress.     *)
(***************************************************************************)
Threads == {1, 2}
NoAdds == [serialised |-> TRUE, th |-> [t \in Threads |-> [pc |-> "idle"]]]

InProgress == {t \in Threads : adds.th[t].pc # "idle"}

\* embedding = encode(content), reshaped and normalised: locals only
AddEncode(t, content, namespace) ==
    /\ adds.th[t].pc = "idle"
    /\ adds.serialised => InProgress = {}
    /\ adds' = [adds EXCEPT !.th[t] = [pc |-> "encoded", content |-> content,
                                        namespace |-> namespace,
                                        embedding |-> Encode(content)]]
    /\ UNCHANGED <<index, documents, metadata, disk, now, call>>

\* (mutant) the vector is put in front of the index
AddIndex_Front(t) ==
    /\ adds.th[t].pc = "encoded"
    /\ index' = <<adds.th[t].embedding>> \o index
    /\ adds' = [adds EXCEPT !.th[t].pc = "indexed"]
    /\ UNCHANGED <<documents, metadata, disk, now, call>>

\* self.index.add(embedding)
AddIndex(t) ==
    /\ adds.th[t].pc = "encoded"
    /\ index' = Append(index, adds.th[t].embedding)
    /\ adds' = [adds EXCEPT !.th[t].pc = "indexed"]
    /\ UNCHANGED <<documents, metadata, disk, now, call>>

\* memory_id from len(self.documents) and the clock, then the metadata
\* record, built from locals
AddId(t) ==
    /\ adds.th[t].pc = "indexed"
    /\ adds' = [adds EXCEPT !.th[t] =
                  [pc |-> "named", content |-> @.content, namespace |-> @.namespace,
                   memory_id |-> NewId(@.namespace, documents, now),
                   metadata |-> NewMetadata(@.content, @.namespace, <<>>,
                                            documents, now)]]
    /\ UNCHANGED <<index, documents, metadata, disk, now, call>>

\* self.metadata.append(metadata)
AddMetadata(t) ==
    /\ adds.th[t].pc = "named"
    /\ metadata' = Append(metadata, adds.th[t].metadata)
    /\ adds' = [adds EXCEPT !.th[t] =
                  [pc |-> "described", content |-> @.content,
                   namespace |-> @.namespace, memory_id |-> @.memory_id]]
    /\ UNCHANGED <<index, documents, disk, now, call>>

\* self.documents.append(content)
AddDocuments(t) ==
    /\ adds.th[t].pc = "described"
    /\ documents' = Append(documents, adds.th[t].content)
    /\ adds' = [adds EXCEPT !.th[t].pc = "stored"]
    /\ UNCHANGED <<index, metadata, disk, now, call>>

\* self._save_data(), then return memory_id
AddSave(t) ==
    /\ adds.th[t].pc = "stored"
    /\ disk' = _save_data(index, metadata, documents, disk, "ok")
    /\ call' = [op |-> "add", content |-> adds.th[t].content,
                namespace |-> adds.th[t].namespace, kwargs |-> <<>>,
                raised |-> FALSE, save |-> "ok", id |-> adds.th[t].memory_id]
    /\ adds' = [adds EXCEPT !.th[t] = [pc |-> "idle"]]
    /\ UNCHANGED <<index, documents, metadata, now>>

(***************************************************************************)
(* search_memory and search_all                                            *)
(***************************************************************************)
\* list.sort(key=score, reverse=True): stable, best score first
RECURSIVE InsertByScore(_, _)
InsertByScore(sorted, r) ==
    IF sorted = <<>> THEN <<r>>
    ELSE IF Head(sorted).score >= r.score
         THEN <<Head(sorted)>> \o InsertByScore(Tail(sorted), r)
         ELSE <<r>> \o sorted

RECURSIVE SortByScore(_)
SortByScore(results) ==
    IF results = <<>> THEN <<>>
    ELSE InsertByScore(SortByScore(SubSeq(results, 1, Len(results) - 1)),
                       results[Len(results)])

\* (mutant) a hit counts twice
Touch_Twice(meta, t) ==
    [k \in DOMAIN meta \cup {"access_count", "last_accessed"} |->
        IF k = "access_count" THEN Pop(meta, "access_count", 0) + 2
        ELSE IF k = "last_accessed" THEN <<t>>
        ELSE meta[k]]

\* metadata[idx]["access_count"] = metadata[idx].get("access_count", 0) + 1
\* and metadata[idx]["last_accessed"] = now
Touch(meta, t) ==
    [k \in DOMAIN meta \cup {"access_count", "last_accessed"} |->
        IF k = "access_count" THEN Pop(meta, "access_count", 0) + 1
        ELSE IF k = "last_accessed" THEN <<t>>
        ELSE meta[k]]

\* (mutant) the loop of search_memory without the namespace test
RECURSIVE SearchLoop_NoFilter(_, _, _, _, _, _, _, _)
SearchLoop_NoFilter(found, pos, md, docs, results, namespace, search_limit, t) ==
    IF pos > Len(found) THEN [metadata |-> md, results |-> results, raised |-> FALSE]
    ELSE LET score == found[pos][1]
             idx == found[pos][2]
         IN  IF idx = NoMatch
             THEN SearchLoop_NoFilter(found, pos + 1, md, docs, results, namespace,
                                      search_limit, t)
             ELSE IF idx > Len(md) \/ idx > Len(docs)
             THEN [metadata |-> md, results |-> results, raised |-> TRUE]
             ELSE LET md1 == [md EXCEPT ![idx] = Touch(md[idx], t)]
                      result == [id |-> md1[idx].id,
                                 content |-> docs[idx],
                                 score |-> score,
                                 metadata |-> md1[idx],
                                 namespace |-> Pop(md[idx], "namespace", "memory"),
                                 timestamp |-> md1[idx].timestamp,
                                 pos |-> idx]
                      results1 == Append(results, result)
                  IN  IF Len(results1) >= search_limit
                      THEN [metadata |-> md1, results |-> results1, raised |-> FALSE]
                      ELSE SearchLoop_NoFilter(found, pos + 1, md1, docs, results1,
                                               namespace, search_limit, t)

\* The loop of search_memory over the neighbours, from position pos on.
\* namespace = NoNamespace is the call without a filter.
RECURSIVE SearchLoop(_, _, _, _, _, _, _, _)
SearchLoop(found, pos, md, docs, results, namespace, search_limit, t) ==
    IF pos > Len(found) THEN [metadata |-> md, results |-> results, raised |-> FALSE]
    ELSE LET score == found[pos][1]
             idx == found[pos][2]
         IN  IF idx = NoMatch
             THEN SearchLoop(found, pos + 1, md, docs, results, namespace, search_limit, t)
             ELSE IF idx > Len(md)
             THEN [metadata |-> md, results |-> results, raised |-> TRUE]
             ELSE LET entry_namespace == Pop(md[idx], "namespace", "memory")
                  IN  IF namespace # NoNamespace /\ entry_namespace # namespace
                      THEN SearchLoop(found, pos + 1, md, docs, results, namespace,
                                      search_limit, t)
                      ELSE LET md1 == [md EXCEPT ![idx] = Touch(md[idx], t)]
                           IN  IF idx > Len(docs)
                               THEN [metadata |-> md1, results |-> results, raised |-> TRUE]
                               ELSE LET result == [id |-> md1[idx].id,
                                                   content |-> docs[idx],
                                                   score |-> score,
                                                   metadata |-> md1[idx],
                                                   namespace |-> entry_namespace,
                                                   timestamp |-> md1[idx].timestamp,
                                                   pos |-> idx]
                                        results1 == Append(results, result)
                                    IN  IF Len(results1) >= search_limit
                                        THEN [metadata |-> md1, results |-> results1,
                                              raised |-> FALSE]
                                        ELSE SearchLoop(found, pos + 1, md1, docs, results1,
                                                        namespace, search_limit, t)

\* limit or self.max_results: a limit of 0 is falsy, as an omitted one is
SearchLimit(limit) == IF limit = 0 THEN max_results ELSE limit

RECURSIVE TotalAccess(_)
TotalAccess(md) ==
    IF md = <<>> THEN 0
    ELSE Pop(Head(md), "access_count", 0) + TotalAccess(Tail(md))

\* The bound on the access counters
Touchable == TotalAccess(metadata) < MaxAccess

search_memory(query, namespace, limit, outcome) ==
    /\ Touchable
    /\ IF Len(documents) = 0
       THEN /\ call' = [op |-> "search", query |-> query, namespace |-> namespace,
                        limit |-> limit, raised |-> FALSE, save |-> "none",
                        results |-> <<>>]
            /\ UNCHANGED <<metadata, disk>>
       ELSE IF outcome = EncodeRaises
       THEN /\ call' = [op |-> "search", query |-> query, namespace |-> namespace,
                        limit |-> limit, raised |-> TRUE, save |-> "none"]
            /\ UNCHANGED <<metadata, disk>>
       ELSE LET search_limit == SearchLimit(limit)
                k == Min(search_limit * OverFetch, Len(documents))
            IN  \E found \in IndexSearch(index, Encode(query), k) :
                  LET out == SearchLoop(found, 1, metadata, documents, <<>>, namespace,
                                        search_limit, now)
                      saved == ~out.raised /\ out.results # <<>>
                  IN  /\ metadata' = out.metadata
                      /\ disk' = IF saved
                                 THEN _save_data(index, out.metadata, documents, disk,
                                                 outcome)
                                 ELSE disk
                      /\ call' = IF out.raised
                                 THEN [op |-> "search", query |-> query,
                                       namespace |-> namespace, limit |-> limit,
                                       raised |-> TRUE, save |-> "none"]
                                 ELSE [op |-> "search", query |-> query,
                                       namespace |-> namespace, limit |-> limit,
                                       raised |-> FALSE,
                                       save |-> IF saved THEN outcome ELSE "none",
                                       results |-> SortByScore(out.results)]
    /\ UNCHANGED <<index, documents, now>>

SourceType(entry_namespace) ==
    IF entry_namespace = "knowledge" THEN "KNOWLEDGE" ELSE "MEMORY"

\* The loop of search_all: no filter, no early stop.
RECURSIVE SearchAllLoop(_, _, _, _, _, _)
SearchAllLoop(found, pos, md, docs, results, t) ==
    IF pos > Len(found) THEN [metadata |-> md, results |-> results, raised |-> FALSE]
    ELSE LET score == found[pos][1]
             idx == found[pos][2]
         IN  IF idx = NoMatch
             THEN SearchAllLoop(found, pos + 1, md, docs, results, t)
             ELSE IF idx > Len(md)
             THEN [metadata |-> md, results |-> results, raised |-> TRUE]
             ELSE LET entry_namespace == Pop(md[idx], "namespace", "memory")
                      md1 == [md EXCEPT ![idx] = Touch(md[idx], t)]
                  IN  IF idx > Len(docs)
                      THEN [metadata |-> md1, results |-> results, raised |-> TRUE]
                      ELSE LET result == [id |-> md1[idx].id,
                                          content |-> docs[idx],
                                          score |-> score,
                                          metadata |-> md1[idx],
                                          namespace |-> entry_namespace,
                                          timestamp |-> md1[idx].timestamp,
                                          source_type |-> SourceType(entry_namespace),
                                          pos |-> idx]
                           IN  SearchAllLoop(found, pos + 1, md1, docs,
                                             Append(results, result), t)

search_all(query, limit, outcome) ==
    /\ Touchable
    /\ IF Len(documents) = 0
       THEN /\ call' = [op |-> "search_all", query |-> query, limit |-> limit,
                        raised |-> FALSE, save |-> "none", results |-> <<>>]
            /\ UNCHANGED <<metadata, disk>>
       ELSE IF outcome = EncodeRaises
       THEN /\ call' = [op |-> "search_all", query |-> query, limit |-> limit,
                        raised |-> TRUE, save |-> "none"]
            /\ UNCHANGED <<metadata, disk>>
       ELSE LET search_limit == SearchLimit(limit)
                k == Min(search_limit, Len(documents))
            IN  \E found \in IndexSearch(index, Encode(query), k) :
                  LET out == SearchAllLoop(found, 1, metadata, documents, <<>>, now)
                      saved == ~out.raised /\ out.results # <<>>
                  IN  /\ metadata' = out.metadata
                      /\ disk' = IF saved
                                 THEN _save_data(index, out.metadata, documents, disk,
                                                 outcome)
                                 ELSE disk
                      /\ call' = IF out.raised
                                 THEN [op |-> "search_all", query |-> query,
                                       limit |-> limit, raised |-> TRUE, save |-> "none"]
                                 ELSE [op |-> "search_all", query |-> query,
                                       limit |-> limit, raised |-> FALSE,
                                       save |-> IF saved THEN outcome ELSE "none",
                                       results |-> SortByScore(out.results)]
    /\ UNCHANGED <<index, documents, now>>

(***************************************************************************)
(* clear_memories                                                          *)
(***************************************************************************)
\* (mutant) the test is inverted: the target namespace is what is kept
RECURSIVE IndicesToKeep_Inverted(_, _, _)
IndicesToKeep_Inverted(md, i, namespace) ==
    IF i > Len(md) THEN <<>>
    ELSE IF Pop(md[i], "namespace", None) = namespace
         THEN <<i>> \o IndicesToKeep_Inverted(md, i + 1, namespace)
         ELSE IndicesToKeep_Inverted(md, i + 1, namespace)

\* indices_to_keep: the positions whose namespace is not the target
RECURSIVE IndicesToKeep(_, _, _)
IndicesToKeep(md, i, namespace) ==
    IF i > Len(md) THEN <<>>
    ELSE IF Pop(md[i], "namespace", None) # namespace
         THEN <<i>> \o IndicesToKeep(md, i + 1, namespace)
         ELSE IndicesToKeep(md, i + 1, namespace)

\* (mutant) the rebuild loop never adds to the new index
RECURSIVE Rebuild_NoIndexAdd(_, _, _, _)
Rebuild_NoIndexAdd(keep, md, docs, acc) ==
    IF keep = <<>> THEN acc
    ELSE LET i == Head(keep)
         IN  Rebuild_NoIndexAdd(Tail(keep), md, docs,
                                [index |-> acc.index,
                                 metadata |-> Append(acc.metadata, md[i]),
                                 documents |-> Append(acc.documents, docs[i])])

\* (mutant) the vector is that of the document at the new position
RECURSIVE Rebuild_NewPosition(_, _, _, _)
Rebuild_NewPosition(keep, md, docs, acc) ==
    IF keep = <<>> THEN acc
    ELSE LET i == Head(keep)
         IN  Rebuild_NewPosition(Tail(keep), md, docs,
                 [index |-> Append(acc.index, Encode(docs[Len(acc.index) + 1])),
                  metadata |-> Append(acc.metadata, md[i]),
                  documents |-> Append(acc.documents, docs[i])])

\* The rebuild loop: re-encode every kept document into a new index
RECURSIVE Rebuild(_, _, _, _)
Rebuild(keep, md, docs, acc) ==
    IF keep = <<>> THEN acc
    ELSE LET i == Head(keep)
         IN  Rebuild(Tail(keep), md, docs,
                     [index |-> Append(acc.index, Encode(docs[i])),
                      metadata |-> Append(acc.metadata, md[i]),
                      documents |-> Append(acc.documents, docs[i])])

clear_all(saveOutcome) ==
    /\ index' = <<>>
    /\ metadata' = <<>>
    /\ documents' = <<>>
    /\ disk' = _save_data(<<>>, <<>>, <<>>, disk, saveOutcome)
    /\ call' = [op |-> "clear", namespace |-> NoNamespace, raised |-> FALSE,
                save |-> saveOutcome]
    /\ UNCHANGED now

\* clear_memories(namespace) as a function of the store: the store it
\* leaves, whether it raised, and how its save ended ("none": no save ran)
ClearEntries(st, namespace, outcome) ==
    LET indices_to_keep == IndicesToKeep(st.metadata, 1, namespace)
    IN  IF Len(indices_to_keep) = Len(st.metadata)
        THEN [st |-> st, raised |-> FALSE, save |-> "none"]
        ELSE IF outcome = EncodeRaises /\ indices_to_keep # <<>>
        THEN [st |-> st, raised |-> TRUE, save |-> "none"]
        ELSE LET new == Rebuild(indices_to_keep, st.metadata, st.documents, EmptyStore)
                 saveOutcome == IF outcome = EncodeRaises THEN "ok" ELSE outcome
             IN  [st |-> [index |-> new.index, metadata |-> new.metadata,
                          documents |-> new.documents,
                          disk |-> _save_data(new.index, new.metadata, new.documents,
                                              st.disk, saveOutcome)],
                  raised |-> FALSE, save |-> saveOutcome]

clear_namespace(namespace, outcome) ==
    LET r == ClearEntries(Store, namespace, outcome)
    IN  /\ index' = r.st.index
        /\ metadata' = r.st.metadata
        /\ documents' = r.st.documents
        /\ disk' = r.st.disk
        /\ call' = [op |-> "clear", namespace |-> namespace, raised |-> r.raised,
                    save |-> r.save]
        /\ UNCHANGED now

(***************************************************************************)
(* The clock, and the construction of a store over an existing db_path.    *)
(***************************************************************************)
Tick ==
    /\ now < MaxTime
    /\ now' = now + 1
    /\ call' = [op |-> "tick"]
    /\ UNCHANGED <<index, documents, metadata, disk>>

Restart ==
    LET loaded == _load_existing_data(disk)
    IN  /\ index' = loaded.index
        /\ metadata' = loaded.metadata
        /\ documents' = loaded.documents
        /\ call' = [op |-> "init", after |-> call.op]
        /\ UNCHANGED <<disk, now>>

(***************************************************************************)
(* get_memory_count and get_stats: they read the store and return.         *)
(***************************************************************************)
MemoryCount(md, docs, namespace) ==
    IF namespace = NoNamespace THEN Len(docs)
    ELSE Cardinality({i \in 1..Len(md) : Pop(md[i], "namespace", None) = namespace})

TierCounts(md) ==
    [tier \in Tiers |->
        Cardinality({i \in 1..Len(md) : Pop(md[i], "tier", "Active") = tier})]

get_memory_count(namespace) ==
    /\ call' = [op |-> "count", namespace |-> namespace,
                result |-> MemoryCount(metadata, documents, namespace)]
    /\ UNCHANGED <<index, documents, metadata, disk, now>>

get_stats ==
    /\ call' = [op |-> "stats",
                result |-> [total_entries |-> Len(documents),
                            memory_count |-> MemoryCount(metadata, documents, "memory"),
                            knowledge_count |->
                                MemoryCount(metadata, documents, "knowledge"),
                            tier_counts |-> TierCounts(metadata)]]
    /\ UNCHANGED <<index, documents, metadata, disk, now>>

(***************************************************************************)
(* ErrorHandler.with_retry: the wrapper around one call of the decorated   *)
(* function.  Each invocation of the function returns a value, raises an   *)
(* exception of retry_exceptions or raises another one; log is the record  *)
(* of the invocations made, which the program does not keep.               *)
(***************************************************************************)
RetryIdle == [pc |-> "idle"]
RetryValues == {"v1", "v2"}
RetryErrors == {"e1", "e2"}

\* range(max_retries + 1)
Attempts_OneMore(max_retries) == max_retries + 2
Attempts(max_retries) == max_retries + 1

\* The wrapper is entered: last_exception = None, the loop is at attempt 0
RetryStart(max_retries) ==
    [pc |-> "loop", max_retries |-> max_retries, attempt |-> 0,
     last_exception |-> None, log |-> <<>>, sleeps |-> <<>>]

\* One iteration of the for loop: return func(...), or the except clause,
\* or an exception the clause does not catch
RetryAttempt ==
    /\ rt.pc = "loop"
    /\ rt.attempt < Attempts(rt.max_retries)
    /\ \/ \E v \in RetryValues :
            rt' = [pc |-> "returned", max_retries |-> rt.max_retries,
                   result |-> v, log |-> Append(rt.log, [returned |-> v]),
                   sleeps |-> rt.sleeps]
       \/ \E e \in RetryErrors :
            rt' = [rt EXCEPT !.last_exception = e,
                             !.attempt = @ + 1,
                             !.log = Append(@, [raised |-> e]),
                             !.sleeps = IF rt.attempt < rt.max_retries
                                        THEN Append(@, rt.attempt) ELSE @]
       \/ rt' = [pc |-> "raised", max_retries |-> rt.max_retries,
                 exception |-> "other",
                 log |-> Append(rt.log, [raised |-> "other"]),
                 sleeps |-> rt.sleeps]
    /\ UNCHANGED <<storeVars, ck, adds, loaderVars>>

\* The loop is over: raise last_exception
RetryExhausted ==
    /\ rt.pc = "loop"
    /\ rt.attempt >= Attempts(rt.max_retries)
    /\ rt' = [pc |-> "raised", max_retries |-> rt.max_retries,
              exception |-> rt.last_exception, log |-> rt.log, sleeps |-> rt.sleeps]
    /\ UNCHANGED <<storeVars, ck, adds, loaderVars>>

(***************************************************************************)
(* KnowledgeLoader._chunk_text.  Positions in a text are Python's: the     *)
(* character at position i is text[i + 1].                                 *)
(***************************************************************************)
Whitespace == {" ", "\n"}

\* str.strip()
Strip(text) ==
    IF \A i \in 1..Len(text) : text[i] \in Whitespace THEN <<>>
    ELSE LET first == CHOOSE i \in 1..Len(text) :
                          /\ text[i] \notin Whitespace
                          /\ \A j \in 1..(i - 1) : text[j] \in Whitespace
             last == CHOOSE i \in 1..Len(text) :
                         /\ text[i] \notin Whitespace
                         /\ \A j \in (i + 1)..Len(text) : text[j] \in Whitespace
         IN  SubSeq(text, first, last)

\* A slice bound as Python clips it
Clip(i, n) == IF i < 0 THEN (IF i + n < 0 THEN 0 ELSE i + n) ELSE Min(i, n)

\* text[lo:hi]
Slice(text, lo, hi) == SubSeq(text, Clip(lo, Len(text)) + 1, Clip(hi, Len(text)))

\* text.rfind(sub, lo, hi): the highest position at which sub occurs within
\* text[lo:hi], or -1
RFind(text, sub, lo, hi) ==
    LET a == Clip(lo, Len(text))
        b == Clip(hi, Len(text))
        at == {i \in a..(b - Len(sub)) :
                  \A j \in 1..Len(sub) : text[i + j] = sub[j]}
    IN  IF at = {} THEN -1 ELSE CHOOSE i \in at : \A j \in at : j <= i

SentenceEnds == << <<".", " ">>, <<"?", " ">>, <<"!", " ">> >>

\* (mutant) the sentence end nearest to the window end wins, of whatever kind
RECURSIVE SentenceBreak_Nearest(_, _, _, _, _)
SentenceBreak_Nearest(text, puncts, lo, hi, break_point) ==
    IF puncts = <<>> THEN break_point
    ELSE LET bp == RFind(text, Head(puncts), lo, hi)
             rest == SentenceBreak_Nearest(text, Tail(puncts), lo, hi, break_point)
         IN  IF bp > lo /\ bp + 1 > rest THEN bp + 1 ELSE rest

\* The for loop over the sentence ends: the first kind found past lo wins
RECURSIVE SentenceBreak(_, _, _, _, _)
SentenceBreak(text, puncts, lo, hi, break_point) ==
    IF puncts = <<>> THEN break_point
    ELSE LET bp == RFind(text, Head(puncts), lo, hi)
         IN  IF bp > lo THEN bp + 1
             ELSE SentenceBreak(text, Tail(puncts), lo, hi, break_point)

\* (mutant) the window is one character too long
WindowEnd_OffByOne(text, start, chunk_size, chunk_overlap) ==
    Min(start + chunk_size + 1, Len(text))

\* (mutant) the window is not clipped to the end of the text
WindowEnd_Unclipped(text, start, chunk_size, chunk_overlap) == start + chunk_size

\* The end of the window that starts at start
WindowEnd(text, start, chunk_size, chunk_overlap) ==
    LET text_length == Len(text)
        end == Min(start + chunk_size, text_length)
        lo == start + chunk_overlap
        bp1 == RFind(text, <<"\n", "\n">>, lo, end)
        bp2 == IF bp1 = -1 \/ bp1 <= lo THEN RFind(text, <<"\n">>, lo, end) ELSE bp1
        bp3 == IF bp2 = -1 \/ bp2 <= lo
               THEN SentenceBreak(text, SentenceEnds, lo, end, bp2)
               ELSE bp2
    IN  IF end < text_length
        THEN IF bp3 > lo THEN bp3 ELSE end
        ELSE end

\* The locals of _chunk_text before the loop
ChunkStart(text, source_file, chunk_size, chunk_overlap) ==
    LET stripped == Strip(text)
    IN  [raw |-> text,
         text |-> stripped,
         source_file |-> source_file,
         chunk_size |-> chunk_size,
         chunk_overlap |-> chunk_overlap,
         start |-> 0,
         chunk_index |-> 0,
         chunks |-> <<>>,
         windows |-> 0,
         done |-> stripped = <<>>]

\* (mutant) the next window starts where the last one ended: no overlap
ChunkStep_NoOverlap(c) ==
    LET end == WindowEnd(c.text, c.start, c.chunk_size, c.chunk_overlap)
        chunk_text == Strip(Slice(c.text, c.start, end))
        kept == chunk_text # <<>>
    IN  [c EXCEPT
           !.chunks = IF kept
                      THEN Append(@, [content |-> chunk_text,
                                      source_file |-> c.source_file,
                                      chunk_index |-> c.chunk_index,
                                      char_start |-> c.start,
                                      char_end |-> end])
                      ELSE @,
           !.chunk_index = IF kept THEN @ + 1 ELSE @,
           !.start = end,
           !.windows = @ + 1,
           !.done = ~(end < Len(c.text))]

\* One iteration of the while loop
ChunkStep(c) ==
    LET text_length == Len(c.text)
        end == WindowEnd(c.text, c.start, c.chunk_size, c.chunk_overlap)
        chunk_text == Strip(Slice(c.text, c.start, end))
        kept == chunk_text # <<>>
        start1 == IF end < text_length THEN end - c.chunk_overlap ELSE text_length
    IN  [c EXCEPT
           !.chunks = IF kept
                      THEN Append(@, [content |-> chunk_text,
                                      source_file |-> c.source_file,
                                      chunk_index |-> c.chunk_index,
                                      char_start |-> c.start,
                                      char_end |-> end])
                      ELSE @,
           !.chunk_index = IF kept THEN @ + 1 ELSE @,
           !.start = start1,
           !.windows = @ + 1,
           !.done = ~(start1 < text_length)]

\* The whole call, for the texts and configurations on which the loop ends
RECURSIVE ChunkLoop(_)
ChunkLoop(c) == IF c.done THEN c.chunks ELSE ChunkLoop(ChunkStep(c))

_chunk_text(text, source_file, chunk_size, chunk_overlap) ==
    ChunkLoop(ChunkStart(text, source_file, chunk_size, chunk_overlap))

ChunkIdle == [done |-> TRUE]

(***************************************************************************)
(* KnowledgeLoader.  A file is its text, its fingerprint is a function of  *)
(* nothing but that text, and distinct texts have distinct fingerprints.   *)
(***************************************************************************)
KNOWLEDGE_NAMESPACE == "knowledge"
EmptyManifest == [processed_files |-> <<>>, version |-> "1.0"]

LoaderInit ==
    /\ files = <<>>
    /\ manifest = EmptyManifest
    /\ manifestFile = Absent

\* _save_manifest: the exception of a failed write is logged and swallowed
ManifestOutcomes == {"ok", "unopened", "partial"}
_save_manifest(m, f, outcome) ==
    IF outcome = "ok" THEN File(m)
    ELSE IF outcome = "partial" THEN Corrupt
    ELSE f

_get_file_hash(text) == [md5 |-> text]

\* sorted(set(documents)): the paths present, in path order
PathOrder == <<"a.txt", "b.txt">>
Paths == {PathOrder[i] : i \in 1..Len(PathOrder)}
discover_documents(fs) == SelectSeq(PathOrder, LAMBDA p : p \in DOMAIN fs)

\* What the environment can do to one file during one load: nothing, or an
\* exception out of the fingerprint, out of the parser, or out of the first
\* or the second add_memory call
Faults == {"none", "hash", "parse", "add1", "add2"}
FaultPos(fault) == IF fault = "add1" THEN 1 ELSE IF fault = "add2" THEN 2 ELSE 0

NewSummary(n) ==
    [files_discovered |-> n, files_processed |-> 0, files_skipped |-> 0,
     chunks_created |-> 0, errors |-> <<>>, processed_files |-> <<>>]

\* (mutant) a file without text leaves no trace in the summary
WithError_Dropped(acc, kind, path) == acc

WithError(acc, kind, path) ==
    [acc EXCEPT !.summary.errors = Append(@, [kind |-> kind, file |-> path])]

\* except Exception as e: the message names the file and carries str(e),
\* which tells what raised
WithException(acc, path, e) ==
    [acc EXCEPT !.summary.errors =
        Append(@, [kind |-> "exception", file |-> path, e |-> e])]

\* for chunk_data in chunks: add_memory(...), until one call raises
RECURSIVE InsertChunks(_, _, _, _, _, _)
InsertChunks(st, chunks, pos, faultPos, t, saveOutcome) ==
    IF pos > Len(chunks) THEN [st |-> st, raised |-> FALSE]
    ELSE IF pos = faultPos THEN [st |-> st, raised |-> TRUE]
    ELSE LET chunk_data == chunks[pos]
             kwargs == [source_file |-> chunk_data.source_file,
                        chunk_index |-> chunk_data.chunk_index,
                        total_chunks |-> Len(chunks),
                        char_start |-> chunk_data.char_start,
                        char_end |-> chunk_data.char_end,
                        utility_score |-> initial_utility_score,
                        tier |-> "Active"]
         IN  InsertChunks(AddEntry(st, chunk_data.content, KNOWLEDGE_NAMESPACE,
                                   kwargs, t, saveOutcome),
                          chunks, pos + 1, faultPos, t, saveOutcome)

\* (mutant) the manifest entry is written before the chunks are inserted
Record_EntryFirst(acc, path, text, file_hash, chunks, ins, t) ==
    LET written == [acc.manifest EXCEPT !.processed_files =
                      (path :> [hash |-> file_hash,
                                chunks |-> Len(chunks),
                                char_count |-> Len(text),
                                processed_at |-> <<t>>]) @@ @]
    IN  IF ins.raised
        THEN WithException([acc EXCEPT !.st = ins.st, !.manifest = written],
                           path, "add_memory")
        ELSE [st |-> ins.st,
              manifest |-> written,
              summary |->
                [acc.summary EXCEPT
                   !.files_processed = @ + 1,
                   !.chunks_created = @ + Len(chunks),
                   !.processed_files = Append(@, path)]]

\* The end of the per-file try block: the manifest entry is written after the
\* last add_memory call has returned, and not at all when one has raised
Record(acc, path, text, file_hash, chunks, ins, t) ==
    IF ins.raised
    THEN WithException([acc EXCEPT !.st = ins.st], path, "add_memory")
    ELSE [st |-> ins.st,
          manifest |->
            [acc.manifest EXCEPT !.processed_files =
               (path :> [hash |-> file_hash,
                         chunks |-> Len(chunks),
                         char_count |-> Len(text),
                         processed_at |-> <<t>>]) @@ @],
          summary |->
            [acc.summary EXCEPT
               !.files_processed = @ + 1,
               !.chunks_created = @ + Len(chunks),
               !.processed_files = Append(@, path)]]

StoreChunks(acc, path, text, file_hash, chunks, fault, t, saveOutcome) ==
    IF chunks = <<>> THEN WithError(acc, "No chunks created", path)
    ELSE Record(acc, path, text, file_hash, chunks,
                InsertChunks(acc.st, chunks, 1, FaultPos(fault), t, saveOutcome), t)

\* The body of the per-file try block from the parse on
Ingest(acc, path, text, file_hash, cfg, fault, t, saveOutcome) ==
    IF fault = "parse" THEN WithException(acc, path, "_parse_document")
    ELSE IF text = <<>> \/ Strip(text) = <<>>
    THEN WithError(acc, "No text extracted", path)
    ELSE StoreChunks(acc, path, text, file_hash,
                     _chunk_text(text, path, cfg.chunk_size, cfg.chunk_overlap),
                     fault, t, saveOutcome)

\* (mutant) the manifest is never consulted
ProcessFile_NoSkip(acc, path, text, cfg, force_reload, fault, t, saveOutcome) ==
    IF fault = "hash" THEN WithException(acc, path, "_get_file_hash")
    ELSE Ingest(acc, path, text, _get_file_hash(text), cfg, fault, t, saveOutcome)

\* One iteration of the loop over the discovered documents
ProcessFile(acc, path, text, cfg, force_reload, fault, t, saveOutcome) ==
    IF fault = "hash" THEN WithException(acc, path, "_get_file_hash")
    ELSE LET file_hash == _get_file_hash(text)
             processed == acc.manifest.processed_files
         IN  IF /\ ~force_reload
                /\ path \in DOMAIN processed
                /\ processed[path].hash = file_hash
             THEN [acc EXCEPT !.summary.files_skipped = @ + 1]
             ELSE Ingest(acc, path, text, file_hash, cfg, fault, t, saveOutcome)

\* (mutant) the first error ends the loop
RECURSIVE ProcessFiles_StopAtError(_, _, _, _, _, _, _, _)
ProcessFiles_StopAtError(acc, docs, fs, cfg, force_reload, faults, t, saveOutcome) ==
    IF docs = <<>> \/ acc.summary.errors # <<>> THEN acc
    ELSE ProcessFiles_StopAtError(
             ProcessFile(acc, Head(docs), fs[Head(docs)], cfg, force_reload,
                         faults[Head(docs)], t, saveOutcome),
             Tail(docs), fs, cfg, force_reload, faults, t, saveOutcome)

RECURSIVE ProcessFiles(_, _, _, _, _, _, _, _)
ProcessFiles(acc, docs, fs, cfg, force_reload, faults, t, saveOutcome) ==
    IF docs = <<>> THEN acc
    ELSE LET doc_path == Head(docs)
         IN  ProcessFiles(ProcessFile(acc, doc_path, fs[doc_path], cfg, force_reload,
                                      faults[doc_path], t, saveOutcome),
                          Tail(docs), fs, cfg, force_reload, faults, t, saveOutcome)

\* What a load remembers of the call before it: a load without force_reload
\* in which no exception was caught, one in which some was, or anything else
Raised(errors) == \E i \in 1..Len(errors) : errors[i].kind = "exception"
Previous ==
    IF call.op = "load" /\ ~call.force_reload
    THEN IF Raised(call.summary.errors) THEN "load_raised" ELSE "load_clean"
    ELSE "other"

\* The state a load leaves: the store and the manifest after the last file,
\* the manifest saved, the summary returned
Loaded(r, force_reload, manifestOutcome) ==
    /\ index' = r.st.index
    /\ metadata' = r.st.metadata
    /\ documents' = r.st.documents
    /\ disk' = r.st.disk
    /\ manifest' = r.manifest
    /\ manifestFile' = _save_manifest(r.manifest, manifestFile, manifestOutcome)
    /\ call' = [op |-> "load", force_reload |-> force_reload,
                summary |-> r.summary, after |-> Previous]
    /\ UNCHANGED <<now, files>>

load_and_process_documents(cfg, force_reload, faults, saveOutcome, manifestOutcome) ==
    Loaded(ProcessFiles([st |-> Store, manifest |-> manifest,
                         summary |-> NewSummary(Len(discover_documents(files)))],
                        discover_documents(files), files, cfg, force_reload, faults,
                        now, saveOutcome),
           force_reload, manifestOutcome)

clear_knowledge(confirm, outcome, manifestOutcome) ==
    IF ~confirm
    THEN /\ call' = [op |-> "clear_knowledge", confirm |-> FALSE, raised |-> FALSE]
         /\ UNCHANGED <<index, metadata, documents, disk, now, files, manifest,
                        manifestFile>>
    ELSE LET r == ClearEntries(Store, KNOWLEDGE_NAMESPACE, outcome)
         IN  /\ index' = r.st.index
             /\ metadata' = r.st.metadata
             /\ documents' = r.st.documents
             /\ disk' = r.st.disk
             /\ manifest' = IF r.raised THEN manifest ELSE EmptyManifest
             /\ manifestFile' = IF r.raised THEN manifestFile
                                ELSE _save_manifest(EmptyManifest, manifestFile,
                                                    manifestOutcome)
             /\ call' = [op |-> "clear_knowledge", confirm |-> TRUE,
                         raised |-> r.raised]
             /\ UNCHANGED <<now, files>>

(***************************************************************************)
(* The store under its callers: one second of calls on a fresh db_path.    *)
(***************************************************************************)
Contents == {<<"a">>}
Queries == {<<"a">>}
KwargsSet == {<<>>}
Limits == {0, 1}
SpecOutcomes == {EncodeRaises, "ok", "documents_partial"}

Init ==
    /\ index = <<>>
    /\ documents = <<>>
    /\ metadata = <<>>
    /\ disk = NoSnapshot
    /\ now = 0
    /\ call = [op |-> "init", after |-> "none"]
    /\ adds = NoAdds
    /\ rt = RetryIdle
    /\ LoaderInit
    /\ ck = ChunkIdle

Add ==
    /\ Len(documents) < MaxEntries
    /\ \E content \in Contents, namespace \in Namespaces, kwargs \in KwargsSet,
       outcome \in SpecOutcomes :
        add_memory(content, namespace, kwargs, outcome) /\ UNCHANGED <<ck, adds, rt, loaderVars>>

Search ==
    \E query \in Queries, namespace \in Namespaces \cup {NoNamespace},
       limit \in Limits, outcome \in SpecOutcomes :
        search_memory(query, namespace, limit, outcome) /\ UNCHANGED <<ck, adds, rt, loaderVars>>

SearchAll ==
    \E query \in Queries, limit \in Limits, outcome \in SpecOutcomes :
        search_all(query, limit, outcome) /\ UNCHANGED <<ck, adds, rt, loaderVars>>

ClearAll ==
    \E outcome \in SpecOutcomes \ {EncodeRaises} : clear_all(outcome) /\ UNCHANGED <<ck, adds, rt, loaderVars>>

ClearNamespace ==
    \E namespace \in Namespaces, outcome \in SpecOutcomes :
        clear_namespace(namespace, outcome) /\ UNCHANGED <<ck, adds, rt, loaderVars>>

Next == Add \/ Search \/ SearchAll \/ ClearAll \/ ClearNamespace

Spec == Init /\ [][Next]_vars

(***************************************************************************)
(* The store with a running clock: adds and clears under a clock that may  *)
(* or may not advance between two calls.                                   *)
(***************************************************************************)
ClockOutcomes == {EncodeRaises, "ok"}

ClockAdd ==
    /\ Len(documents) < MaxEntries
    /\ \E content \in Contents, namespace \in Namespaces, outcome \in ClockOutcomes :
        add_memory(content, namespace, <<>>, outcome) /\ UNCHANGED <<ck, adds, rt, loaderVars>>

ClockClearAll == clear_all("ok") /\ UNCHANGED <<ck, adds, rt, loaderVars>>

ClockClearNamespace ==
    \E namespace \in Namespaces, outcome \in ClockOutcomes :
        clear_namespace(namespace, outcome) /\ UNCHANGED <<ck, adds, rt, loaderVars>>

ClockTick == Tick /\ UNCHANGED <<ck, adds, rt, loaderVars>>

SpecClock ==
    Init /\ [][ClockAdd \/ ClockClearAll \/ ClockClearNamespace \/ ClockTick]_vars

(***************************************************************************)
(* The store and its snapshot: adds whose save ends in every possible way, *)
(* and the construction of a new store over the same db_path.              *)
(***************************************************************************)
DiskKwargs == {<<>>, [utility_score |-> 90, tier |-> "Archival"]}

DiskAdd ==
    /\ Len(index) < MaxDiskEntries
    /\ Len(documents) < MaxDiskEntries
    /\ Len(metadata) < MaxDiskEntries
    /\ \E content \in Contents, namespace \in Namespaces, kwargs \in DiskKwargs,
          outcome \in Outcomes :
        add_memory(content, namespace, kwargs, outcome) /\ UNCHANGED <<ck, adds, rt, loaderVars>>

DiskClearAll ==
    \E outcome \in SaveOutcomes : clear_all(outcome) /\ UNCHANGED <<ck, adds, rt, loaderVars>>

DiskRestart == Restart /\ UNCHANGED <<ck, adds, rt, loaderVars>>

SpecDisk == Init /\ [][DiskAdd \/ DiskClearAll \/ DiskRestart]_vars

(***************************************************************************)
(* Tiering: adds with every combination of utility_score and tier.         *)
(***************************************************************************)
TierUtilities == {10, 29, 30, 50, 79, 80, 90}
TierKwargs ==
    {<<>>}
        \cup {[utility_score |-> u] : u \in TierUtilities}
        \cup {[tier |-> t] : t \in Tiers}
        \cup {[utility_score |-> u, tier |-> t] : u \in TierUtilities, t \in Tiers}

TierAdd ==
    /\ Len(documents) < MaxTierEntries
    /\ \E content \in Contents, namespace \in Namespaces, kwargs \in TierKwargs,
          outcome \in ClockOutcomes :
        add_memory(content, namespace, kwargs, outcome) /\ UNCHANGED <<ck, adds, rt, loaderVars>>

SpecTier == Init /\ [][TierAdd \/ ClockClearAll]_vars

(***************************************************************************)
(* Caller-supplied attributes: add_memory takes any keyword, the one       *)
(* archive_insert passes (session_id) and those named like the fields      *)
(* add_memory sets itself.                                                 *)
(***************************************************************************)
AttrKwargs ==
    {<<>>,
     [session_id |-> "s"],
     [id |-> <<"mine", 0, 0>>],
     [access_count |-> 5],
     [last_accessed |-> <<0>>],
     [session_id |-> "s", id |-> <<"mine", 0, 0>>]}

AttrAdd ==
    /\ Len(documents) < MaxEntries
    /\ \E content \in Contents, namespace \in Namespaces, kwargs \in AttrKwargs,
          outcome \in ClockOutcomes :
        add_memory(content, namespace, kwargs, outcome) /\ UNCHANGED <<ck, adds, rt, loaderVars>>

SpecAttrs == Init /\ [][AttrAdd \/ ClockClearAll]_vars

(***************************************************************************)
(* Searches over stores of both namespaces whose entries score differently *)
(* against the query: "a" scores 1 and "b" scores 0.                       *)
(***************************************************************************)
SearchContents == {<<"a">>, <<"b">>}
SearchLimits == {0, 1, 2}

SearchStoreAdd ==
    /\ Len(documents) < MaxSearchEntries
    /\ \E content \in SearchContents, namespace \in Namespaces :
        add_memory(content, namespace, <<>>, "ok") /\ UNCHANGED <<ck, adds, rt, loaderVars>>

SearchStoreQuery ==
    \E namespace \in Namespaces \cup {NoNamespace}, limit \in SearchLimits :
        search_memory(<<"a">>, namespace, limit, "ok") /\ UNCHANGED <<ck, adds, rt, loaderVars>>

SearchStoreQueryAll ==
    \E limit \in SearchLimits :
        search_all(<<"a">>, limit, "ok") /\ UNCHANGED <<ck, adds, rt, loaderVars>>

SpecSearch ==
    Init /\ [][SearchStoreAdd \/ SearchStoreQuery \/ SearchStoreQueryAll
                \/ ClockClearAll]_vars

(***************************************************************************)
(* The store under its callers, its two read-only calls included.          *)
(***************************************************************************)
Count ==
    \E namespace \in Namespaces \cup {NoNamespace} :
        get_memory_count(namespace) /\ UNCHANGED <<ck, adds, rt, loaderVars>>

Stats == get_stats /\ UNCHANGED <<ck, adds, rt, loaderVars>>

SpecLifecycle == Init /\ [][Next \/ Count \/ Stats]_vars

(***************************************************************************)
(* Rebuilds: a store of entries whose vectors differ, cleared namespace by *)
(* namespace, the embedding provider failing or not.                       *)
(***************************************************************************)
RebuildContents == {<<"a">>, <<"b", "b">>}

RebuildAdd ==
    /\ Len(documents) < MaxRebuildEntries
    /\ \E content \in RebuildContents, namespace \in Namespaces :
        add_memory(content, namespace, <<>>, "ok") /\ UNCHANGED <<ck, adds, rt, loaderVars>>

SpecRebuild == Init /\ [][RebuildAdd \/ ClockClearNamespace \/ ClockClearAll]_vars

(***************************************************************************)
(* One call of a function decorated with with_retry(max_retries), for      *)
(* every max_retries up to MaxRetries.                                     *)
(***************************************************************************)
InitRetry ==
    /\ index = <<>>
    /\ documents = <<>>
    /\ metadata = <<>>
    /\ disk = NoSnapshot
    /\ now = 0
    /\ call = [op |-> "init", after |-> "none"]
    /\ adds = NoAdds
    /\ \E max_retries \in 0..MaxRetries : rt = RetryStart(max_retries)
    /\ LoaderInit
    /\ ck = ChunkIdle

SpecRetry == InitRetry /\ [][RetryAttempt \/ RetryExhausted]_vars

(***************************************************************************)
(* Two callers of add_memory on a fresh store within one second, either    *)
(* serialised, a call starting only when none is in progress, or not.      *)
(* The two contents differ in their vector and in their length.            *)
(***************************************************************************)
ThreadContents == {<<"a">>, <<"b", "b">>}

InitThreads ==
    /\ index = <<>>
    /\ documents = <<>>
    /\ metadata = <<>>
    /\ disk = NoSnapshot
    /\ now = 0
    /\ call = [op |-> "init", after |-> "none"]
    /\ adds \in {[NoAdds EXCEPT !.serialised = b] : b \in BOOLEAN}
    /\ rt = RetryIdle
    /\ LoaderInit
    /\ ck = ChunkIdle

ThreadEncode ==
    \E t \in Threads, content \in ThreadContents :
        /\ Len(index) + Cardinality({u \in Threads : adds.th[u].pc = "encoded"})
             < MaxThreadEntries
        /\ AddEncode(t, content, "memory")
        /\ UNCHANGED <<ck, rt, loaderVars>>

ThreadIndex == \E t \in Threads : AddIndex(t) /\ UNCHANGED <<ck, rt, loaderVars>>
ThreadId == \E t \in Threads : AddId(t) /\ UNCHANGED <<ck, rt, loaderVars>>
ThreadMetadata == \E t \in Threads : AddMetadata(t) /\ UNCHANGED <<ck, rt, loaderVars>>
ThreadDocuments == \E t \in Threads : AddDocuments(t) /\ UNCHANGED <<ck, rt, loaderVars>>
ThreadSave == \E t \in Threads : AddSave(t) /\ UNCHANGED <<ck, rt, loaderVars>>

\* clear_memories() between calls
ThreadClearAll ==
    /\ InProgress = {}
    /\ clear_all("ok")
    /\ UNCHANGED <<ck, adds, rt, loaderVars>>

SpecThreads ==
    InitThreads /\ [][ThreadEncode \/ ThreadIndex \/ ThreadId \/ ThreadMetadata
                       \/ ThreadDocuments \/ ThreadSave \/ ThreadClearAll]_vars

(***************************************************************************)
(* The loader over a knowledge directory of at most two files whose texts  *)
(* change between loads, within one second, on a store that holds nothing  *)
(* but knowledge.  a.txt is a text of two chunks or a blank one, b.txt one *)
(* of two texts of one chunk.                                              *)
(***************************************************************************)
LoaderConfig == [chunk_size |-> 2, chunk_overlap |-> 1]
LoaderTexts ==
    ("a.txt" :> {<<"a", "b", "c">>, <<" ">>}) @@ ("b.txt" :> {<<"b">>, <<"c">>})
\* What goes wrong in one load, file by file; the fingerprint can fail to be
\* read for the first file only
LoaderFaults ==
    {f \in [DOMAIN files -> Faults] :
        \A p \in DOMAIN f : f[p] = "hash" => p = Head(PathOrder)}
LoaderManifestOutcomes == {"ok"}

WriteFile ==
    \E path \in Paths :
      \E text \in LoaderTexts[path] :
        /\ path \in DOMAIN files => files[path] # text
        /\ files' = (path :> text) @@ files
        /\ call' = [op |-> "write"]
        /\ UNCHANGED <<index, metadata, documents, disk, now, ck, adds, rt, manifest,
                       manifestFile>>

RemoveFile ==
    \E path \in DOMAIN files :
        /\ files' = [p \in DOMAIN files \ {path} |-> files[p]]
        /\ call' = [op |-> "remove"]
        /\ UNCHANGED <<index, metadata, documents, disk, now, ck, adds, rt, manifest,
                       manifestFile>>

Load ==
    \E force_reload \in BOOLEAN, faults \in LoaderFaults,
       manifestOutcome \in LoaderManifestOutcomes :
        /\ load_and_process_documents(LoaderConfig, force_reload, faults, "ok",
                                      manifestOutcome)
        /\ Len(documents') <= MaxKnowledge
        /\ UNCHANGED <<ck, adds, rt>>

ClearKnowledge ==
    \E confirm \in BOOLEAN, manifestOutcome \in LoaderManifestOutcomes :
        clear_knowledge(confirm, "ok", manifestOutcome) /\ UNCHANGED <<ck, adds, rt>>

LoaderClearAll == clear_all("ok") /\ UNCHANGED <<ck, adds, rt, loaderVars>>

SpecLoader ==
    Init /\ [][WriteFile \/ RemoveFile \/ Load \/ ClearKnowledge \/ LoaderClearAll]_vars

(***************************************************************************)
(* The chunker on its own: every short text over a small alphabet, every   *)
(* window and overlap with overlap < window, one loop iteration per step.  *)
(***************************************************************************)
Alphabet == {"x", " ", "\n", "."}

Texts == UNION {[1..n -> Alphabet] : n \in 0..MaxLen}

InitChunk ==
    /\ index = <<>>
    /\ documents = <<>>
    /\ metadata = <<>>
    /\ disk = NoSnapshot
    /\ now = 0
    /\ call = [op |-> "init", after |-> "none"]
    /\ adds = NoAdds
    /\ rt = RetryIdle
    /\ LoaderInit
    /\ \E text \in Texts, chunk_size \in 1..MaxChunkSize :
         \E chunk_overlap \in 0..(chunk_size - 1) :
           ck = ChunkStart(text, "doc.txt", chunk_size, chunk_overlap)

ChunkIteration ==
    /\ ~ck.done
    /\ ck' = ChunkStep(ck)
    /\ UNCHANGED <<storeVars, adds, rt, loaderVars>>

SpecChunk == InitChunk /\ [][ChunkIteration]_vars

(***************************************************************************)
(* The chunker under every configuration __init__ accepts: chunk_size and  *)
(* chunk_overlap are stored as given, an overlap of the window's size or   *)
(* more included.  The loop is followed for MaxWindows iterations.         *)
(***************************************************************************)
Configurations ==
    {[chunk_size |-> c, chunk_overlap |-> o] :
        c \in 1..MaxChunkSize, o \in 0..MaxChunkSize}

MaxWindows == MaxLen + 1

InitChunkAny ==
    /\ index = <<>>
    /\ documents = <<>>
    /\ metadata = <<>>
    /\ disk = NoSnapshot
    /\ now = 0
    /\ call = [op |-> "init", after |-> "none"]
    /\ adds = NoAdds
    /\ rt = RetryIdle
    /\ LoaderInit
    /\ \E text \in Texts, cfg \in Configurations :
         ck = ChunkStart(text, "doc.txt", cfg.chunk_size, cfg.chunk_overlap)

ChunkIterationAny ==
    /\ ck.windows < MaxWindows
    /\ ChunkIteration

SpecChunkAny == InitChunkAny /\ [][ChunkIterationAny]_vars

(***************************************************************************)
(* The chunker on texts in which sentence ends of several kinds, newlines  *)
(* and blank lines fall into one window: every text of SnapLen characters  *)
(* over the break characters, a window one shorter than the text.          *)
(***************************************************************************)
SnapAlphabet == {".", "?", "!", " ", "\n"}
SnapLen == MaxLen + 1
SnapOverlaps == {0, 1}

InitSnap ==
    /\ index = <<>>
    /\ documents = <<>>
    /\ metadata = <<>>
    /\ disk = NoSnapshot
    /\ now = 0
    /\ call = [op |-> "init", after |-> "none"]
    /\ adds = NoAdds
    /\ rt = RetryIdle
    /\ LoaderInit
    /\ \E text \in [1..SnapLen -> SnapAlphabet], chunk_overlap \in SnapOverlaps :
         ck = ChunkStart(text, "doc.txt", SnapLen - 1, chunk_overlap)

SpecSnap == InitSnap /\ [][ChunkIteration]_vars

(***************************************************************************)
(* Scenario A: 2500 characters, chunk_size 1000, overlap 200.  The texts   *)
(* are runs of "x" with at most one break, or one long run of blanks.      *)
(***************************************************************************)
ScenarioA == [length |-> 2500, chunk_size |-> 1000, chunk_overlap |-> 200]

ScenarioFills ==
    {<<"x">>, <<" ">>, <<"\n">>, <<".", " ">>, <<"?", " ">>, <<"\n", "\n">>}

ScenarioPositions == {200 * k + 50 : k \in 1..11}

ScenarioTexts ==
    {[i \in 1..ScenarioA.length |->
         IF i >= p /\ i < p + Len(fill) THEN fill[i - p + 1] ELSE "x"] :
       p \in ScenarioPositions, fill \in ScenarioFills}
    \cup {[i \in 1..ScenarioA.length |-> IF i > 700 /\ i <= 1900 THEN " " ELSE "x"]}

InitScenarioA ==
    /\ index = <<>>
    /\ documents = <<>>
    /\ metadata = <<>>
    /\ disk = NoSnapshot
    /\ now = 0
    /\ call = [op |-> "init", after |-> "none"]
    /\ adds = NoAdds
    /\ rt = RetryIdle
    /\ LoaderInit
    /\ \E text \in ScenarioTexts :
         ck = ChunkStart(text, "doc.txt", ScenarioA.chunk_size, ScenarioA.chunk_overlap)

SpecScenarioA == InitScenarioA /\ [][ChunkIteration]_vars

(***************************************************************************)
(* Properties of the chunker.                                              *)
(***************************************************************************)
CeilDiv(a, b) == (a + b - 1) \div b

\* No "\n" and no ". ", "? ", "! " anywhere in the text
NoNaturalBreaks(text) ==
    /\ \A i \in 1..Len(text) : text[i] # "\n"
    /\ \A i \in 1..(Len(text) - 1) :
         ~(text[i] \in {".", "?", "!"} /\ text[i + 1] = " ")

NoParagraphBreaks(text) ==
    \A i \in 1..(Len(text) - 1) : ~(text[i] = "\n" /\ text[i + 1] = "\n")

\* Every window [k(C-O), k(C-O)+C) of the text holds a character that is
\* not white space
EveryWindowHasText(text, chunk_size, chunk_overlap) ==
    \A k \in 0..Len(text) :
        k * (chunk_size - chunk_overlap) < Len(text) - chunk_overlap =>
            \E i \in (k * (chunk_size - chunk_overlap) + 1)..
                     Min(k * (chunk_size - chunk_overlap) + chunk_size, Len(text)) :
                text[i] \notin Whitespace

\* Adjacent chunks share at least / exactly n characters of the text
OverlapAtLeast(chunks, n) ==
    \A i \in 2..Len(chunks) : chunks[i].char_start <= chunks[i - 1].char_end - n
OverlapExactly(chunks, n) ==
    \A i \in 2..Len(chunks) : chunks[i - 1].char_end - chunks[i].char_start = n

\* The ranges [char_start, char_end) cover every position of the text
Covers(chunks, text) ==
    \A pos \in 0..(Len(text) - 1) :
        \E i \in 1..Len(chunks) :
            chunks[i].char_start <= pos /\ pos < chunks[i].char_end

C9Case ==
    /\ ck.done
    /\ NoNaturalBreaks(ck.text)
    /\ ck.chunk_overlap < ck.chunk_size
    /\ ck.chunk_size < Len(ck.text)

\* C9 as the specification states it: a trimmed text of length L with no
\* natural breaks, window C and overlap O, 0 <= O < C < L, is cut into exactly
\* ceil((L-O)/(C-O)) chunks, and each chunk starts at most at the previous
\* chunk's end minus O.
C9_ChunkCount_Original ==
    C9Case =>
        /\ Len(ck.chunks) = CeilDiv(Len(ck.text) - ck.chunk_overlap,
                                    ck.chunk_size - ck.chunk_overlap)
        /\ OverlapAtLeast(ck.chunks, ck.chunk_overlap)

\* C9: for a trimmed text of length L with no natural breaks, window C and
\* overlap O, 0 <= O < C < L, the loop visits exactly ceil((L-O)/(C-O))
\* windows and keeps at most one chunk per window; when every window holds a
\* character that is not white space there are exactly ceil((L-O)/(C-O))
\* chunks and each starts at most at the previous chunk's end minus O.  (A
\* window of white space alone is discarded and leaves a gap.)
C9_ChunkCount ==
    C9Case =>
        /\ ck.windows = CeilDiv(Len(ck.text) - ck.chunk_overlap,
                                ck.chunk_size - ck.chunk_overlap)
        /\ Len(ck.chunks) <= ck.windows
        /\ EveryWindowHasText(ck.text, ck.chunk_size, ck.chunk_overlap) =>
             /\ Len(ck.chunks) = ck.windows
             /\ OverlapAtLeast(ck.chunks, ck.chunk_overlap)

C9_Witness ==
    /\ C9Case
    /\ ck.chunk_overlap >= 1
    /\ EveryWindowHasText(ck.text, ck.chunk_size, ck.chunk_overlap)
    /\ Len(ck.chunks) >= 3

ScenarioACase ==
    /\ ck.done
    /\ Len(ck.raw) = ScenarioA.length
    /\ ck.chunk_size = ScenarioA.chunk_size
    /\ ck.chunk_overlap = ScenarioA.chunk_overlap
    /\ NoParagraphBreaks(ck.raw)

C11_ShortText ==
    ck.done =>
        /\ Strip(ck.raw) = <<>> => ck.chunks = <<>>
        /\ (Strip(ck.raw) # <<>> /\ Len(Strip(ck.raw)) < ck.chunk_size) =>
             /\ Len(ck.chunks) = 1
             /\ ck.chunks[1].content = Strip(ck.raw)
             /\ ck.chunks[1].char_start = 0
             /\ ck.chunks[1].char_end = Len(Strip(ck.raw))

C11_Witness ==
    /\ ck.done
    /\ ck.windows = 1
    /\ Len(ck.raw) > Len(Strip(ck.raw))
    /\ Len(Strip(ck.raw)) = 2
    /\ ck.chunk_size = 3
    /\ Len(ck.chunks) = 1

\* The window of the iteration about to run: its hard end, the position
\* breaks are looked for after, the positions past it at which sub lies
\* within the window, and the end the iteration chose
HardEnd == Min(ck.start + ck.chunk_size, Len(ck.text))
BreakFloor == ck.start + ck.chunk_overlap
BreaksAt(sub) ==
    {p \in (BreakFloor + 1)..(HardEnd - Len(sub)) :
        \A j \in 1..Len(sub) : ck.text[p + j] = sub[j]}
Last(S) == CHOOSE p \in S : \A q \in S : q <= p
ChosenEnd == ck'.start + ck.chunk_overlap
ShortOfTheEnd == ck'.windows = ck.windows + 1 /\ HardEnd < Len(ck.text)

\* The end of a window that has no blank line and no newline to break at:
\* behind the sentence end nearest to the window's end / behind the last
\* ". ", else the last "? ", else the last "! "; else the hard end
SentenceEndNearest ==
    LET all == BreaksAt(<<".", " ">>) \cup BreaksAt(<<"?", " ">>)
                 \cup BreaksAt(<<"!", " ">>)
    IN  IF all # {} THEN Last(all) + 1 ELSE HardEnd

SentenceEndByKind ==
    IF BreaksAt(<<".", " ">>) # {} THEN Last(BreaksAt(<<".", " ">>)) + 1
    ELSE IF BreaksAt(<<"?", " ">>) # {} THEN Last(BreaksAt(<<"?", " ">>)) + 1
    ELSE IF BreaksAt(<<"!", " ">>) # {} THEN Last(BreaksAt(<<"!", " ">>)) + 1
    ELSE HardEnd

Snapped(sentenceEnd) ==
    /\ BreakFloor < ChosenEnd /\ ChosenEnd <= ck.start + ck.chunk_size
    /\ ChosenEnd =
         IF BreaksAt(<<"\n", "\n">>) # {} THEN Last(BreaksAt(<<"\n", "\n">>))
         ELSE IF BreaksAt(<<"\n">>) # {} THEN Last(BreaksAt(<<"\n">>))
         ELSE sentenceEnd

\* C23 as the specification states it: a window that does not reach the end
\* of the text ends past start + overlap and at or before start +
\* chunk_size: at the last blank line in that range, else at the last
\* newline, else behind the sentence end nearest to the window's end, else
\* at start + chunk_size.
C23_Snapping_Original ==
    [][ShortOfTheEnd => Snapped(SentenceEndNearest)]_vars

\* C23: a window that does not reach the end of the text ends past start +
\* overlap and at or before start + chunk_size: at the last blank line in
\* that range, else at the last newline, else behind the last ". ", else
\* behind the last "? ", else behind the last "! ", else at start +
\* chunk_size.
C23_Snapping ==
    [][ShortOfTheEnd => Snapped(SentenceEndByKind)]_vars

\* The first window of ". ? .." has ended behind the ". " though the "? "
\* is nearer to its end
C23_Witness ==
    /\ ck.text = <<".", ".", " ", "?", " ", ".">>
    /\ ck.chunk_overlap = 0
    /\ ck.windows = 1
    /\ ck.start = 2

\* C19: in every iteration of the chunking loop the window ends after its
\* start and the next window starts after this one did, and the loop has
\* ended by the time it has run once for each character of the text.
C19_ForwardProgress ==
    /\ [][ck'.windows = ck.windows + 1 =>
            /\ WindowEnd(ck.text, ck.start, ck.chunk_size, ck.chunk_overlap) > ck.start
            /\ ck'.start > ck.start]_vars
    /\ [](~ck.done => ck.windows < Len(ck.text))

(***************************************************************************)
(* Properties of the store.                                                *)
(***************************************************************************)
EntryCount(md, namespace) ==
    Cardinality({i \in 1..Len(md) : Pop(md[i], "namespace", None) = namespace})

\* C1: in every state reached by add, search, search_all, clear() and
\* clear(namespace) calls, those whose encode raises or whose save fails
\* included, the index, documents and metadata hold the same number of items.
C1_LengthsAgree ==
    /\ Len(index) = Len(documents)
    /\ Len(documents) = Len(metadata)

C1_Witness ==
    /\ call.op = "clear"
    /\ call.namespace # NoNamespace
    /\ call.save = "documents_partial"
    /\ Len(documents) >= 1
    /\ disk.documents = Corrupt

\* C2 as stated: no two entries held in the store at the same time have the
\* same id.
C2_IdsUnique ==
    \A i \in 1..Len(metadata) : \A j \in 1..Len(metadata) :
        i # j => metadata[i].id # metadata[j].id

\* Position i of the index, of the metadata and of the documents belong to
\* one entry: the vector is that of the document, the record describes it
Corresponds(i) ==
    /\ index[i] = Encode(documents[i])
    /\ metadata[i].content_length = Len(documents[i])

\* C18: add_memory takes no lock.  When its callers serialise their calls,
\* position i of the index corresponds to documents[i] and metadata[i] in
\* every state, a call in progress having appended to the index first, to
\* the metadata next and to the documents last, and the three are of one
\* length between calls.
C18_SerialisedAligned ==
    adds.serialised =>
        /\ Len(documents) <= Len(metadata) /\ Len(metadata) <= Len(index)
        /\ Len(index) <= Len(documents) + 1
        /\ InProgress = {} => Len(index) = Len(documents)
        /\ \A i \in 1..Len(documents) : Corresponds(i)

\* Two calls that interleaved have both returned: position 1 of the index
\* holds the vector of another entry than documents[1], and the two entries
\* were given the same ordinal, and with it the same id
C18_Witness ==
    /\ ~adds.serialised
    /\ InProgress = {}
    /\ Len(index) = 2 /\ Len(documents) = 2 /\ Len(metadata) = 2
    /\ index[1] # Encode(documents[1])
    /\ metadata[1].content_length = Len(documents[1])
    /\ metadata[1].id[2] = metadata[2].id[2]
    /\ call.op = "add"

\* C3: every result of search(query, namespace = X) has namespace X, and is
\* an entry of the store whose namespace is X.
C3_NamespaceIsolation ==
    (call.op = "search" /\ ~call.raised /\ call.namespace # NoNamespace) =>
        \A i \in 1..Len(call.results) :
            /\ call.results[i].namespace = call.namespace
            /\ metadata[call.results[i].pos].namespace = call.namespace
            /\ metadata[call.results[i].pos].id = call.results[i].id

C3_Witness ==
    /\ call.op = "search"
    /\ ~call.raised
    /\ call.namespace = "memory"
    /\ Len(call.results) >= 1
    /\ EntryCount(metadata, "knowledge") >= 1

\* The positions of md outside namespace, in increasing order
Retained(md, namespace) ==
    LET keep == {i \in 1..Len(md) : md[i].namespace # namespace}
    IN  [n \in 1..Cardinality(keep) |->
            CHOOSE i \in keep : Cardinality({j \in keep : j < i}) = n - 1]

C5_RoundTrip ==
    [][(call.op = "add" /\ ~call.raised /\ call.save = "ok" /\ call'.op = "init") =>
         LET nd == Len(documents)
             nm == Len(metadata)
         IN  /\ Len(documents') = nd
             /\ Len(metadata') = nm
             /\ documents'[nd] = call.content
             /\ documents'[nd] = documents[nd]
             /\ metadata'[nm].namespace = call.namespace
             /\ metadata'[nm].namespace = metadata[nm].namespace
             /\ metadata'[nm].tier = metadata[nm].tier
             /\ metadata'[nm].utility_score = metadata[nm].utility_score]_vars

C5_Witness ==
    /\ call.op = "init"
    /\ call.after = "add"
    /\ Len(documents) >= 1
    /\ Len(metadata) >= 1
    /\ metadata[Len(metadata)].tier = "Archival"
    /\ metadata[Len(metadata)].utility_score = 90
    /\ disk.documents # Corrupt
    /\ disk.documents.data = PickleDump(documents)

\* The step is a call whose save failed
SaveFailed ==
    /\ call'.op \in {"add", "search", "search_all", "clear"}
    /\ call'.save \notin {"ok", "none"}

\* C14: a call of add, search, search_all or clear whose disk write fails
\* raises nothing and keeps what it did to the store: add has appended the
\* vector, the document and the metadata record and returns the new id, the
\* searches have counted the access of every result they return, clear has
\* removed what it was to remove.
C14_NoRollback ==
    [][SaveFailed =>
         /\ ~call'.raised
         /\ call'.op = "add" =>
              /\ index' = Append(index, Encode(call'.content))
              /\ documents' = Append(documents, call'.content)
              /\ Len(metadata') = Len(metadata) + 1
              /\ metadata'[Len(metadata')].id = call'.id
              /\ call'.id = <<call'.namespace, Len(documents), now>>
         /\ call'.op \in {"search", "search_all"} =>
              /\ call'.results # <<>>
              /\ \A i \in 1..Len(call'.results) :
                   LET pos == call'.results[i].pos
                   IN  /\ metadata'[pos].access_count = metadata[pos].access_count + 1
                       /\ metadata'[pos].last_accessed = <<now>>
         /\ call'.op = "clear" =>
              /\ EntryCount(metadata', call'.namespace) = 0
              /\ call'.namespace = NoNamespace => documents' = <<>>
              /\ Len(index') = Len(metadata') /\ Len(documents') = Len(metadata')]_vars

C14_Witness ==
    /\ call.op = "add"
    /\ ~call.raised
    /\ call.save = "documents_partial"
    /\ Len(documents) = 2
    /\ metadata[2].id = call.id
    /\ disk.documents = Corrupt

\* One of the three snapshot files is missing or cannot be read
BadSnapshot(d) ==
    \E f \in {"index", "metadata", "documents"} : d[f] \in {Absent, Corrupt}

\* C13: the construction of a store over a snapshot of which a file is
\* missing, unreadable or corrupt completes and leaves index, documents and
\* metadata all empty: no part is taken from the disk while another is not.
C13_BadSnapshotEmpty ==
    (call.op = "init" /\ BadSnapshot(disk)) =>
        /\ index = <<>>
        /\ documents = <<>>
        /\ metadata = <<>>

C13_Witness ==
    /\ call.op = "init"
    /\ call.after = "add"
    /\ disk.index = File(WriteIndex(<<Encode(<<"a">>)>>))
    /\ disk.metadata # Corrupt /\ disk.metadata # Absent
    /\ disk.documents = Corrupt
    /\ index = <<>>

\* The three files are there, readable, and of the same number of entries
SnapshotConsistent(d) ==
    /\ ~BadSnapshot(d)
    /\ d.index.data.ntotal = Len(d.metadata.data)
    /\ d.index.data.ntotal = Len(d.documents.data.list)

\* The last call stopped in its save after the index file was written and
\* before the metadata and documents files were: what a crash at that point
\* leaves on the disk
StoppedAfterIndex ==
    /\ call.op \in {"add", "clear", "search", "search_all"}
    /\ ~call.raised
    /\ call.save = "metadata_unopened"

\* C15: a store constructed after a save stopped between the index file and
\* the metadata and documents files never holds an index of another size
\* than documents or metadata, and is empty when the snapshot left on the
\* disk is inconsistent.
C15_CrashRecovery ==
    [][(StoppedAfterIndex /\ call'.op = "init") =>
         /\ Len(index') = Len(documents')
         /\ Len(index') = Len(metadata')
         /\ ~SnapshotConsistent(disk) =>
              (index' = <<>> /\ documents' = <<>> /\ metadata' = <<>>)]_vars

\* C6: with no tier supplied, add stores Sacred for a utility_score of at
\* least 0.8, Active from 0.3 to below 0.8 and Archival below 0.3; a tier
\* supplied by the caller is stored whatever the utility_score.
C6_Tiering ==
    (call.op = "add" /\ ~call.raised) =>
        LET m == metadata[Len(metadata)]
            u == m.utility_score
        IN  /\ "utility_score" \in DOMAIN call.kwargs => u = call.kwargs.utility_score
            /\ IF "tier" \in DOMAIN call.kwargs
               THEN m.tier = call.kwargs.tier
               ELSE /\ u >= 80 => m.tier = "Sacred"
                    /\ (u >= 30 /\ u < 80) => m.tier = "Active"
                    /\ u < 30 => m.tier = "Archival"
            /\ (u = 90 /\ "tier" \notin DOMAIN call.kwargs) => m.tier = "Sacred"
            /\ (u = 50 /\ "tier" \notin DOMAIN call.kwargs) => m.tier = "Active"
            /\ (u = 10 /\ "tier" \notin DOMAIN call.kwargs) => m.tier = "Archival"

C6_Witness ==
    /\ call.op = "add"
    /\ ~call.raised
    /\ call.kwargs = [utility_score |-> 90, tier |-> "Archival"]
    /\ metadata[Len(metadata)].tier = "Archival"

(***************************************************************************)
(* Properties of the searches.                                             *)
(***************************************************************************)
\* The score of the entry at position i against the query of the last call
ScoreOf(i) == InnerProduct(index[i], Encode(call.query))

Positions(results) == {results[i].pos : i \in 1..Len(results)}

NonIncreasing(results) ==
    \A i \in 1..(Len(results) - 1) : results[i].score >= results[i + 1].score

\* The results are distinct entries, and no entry left out scores higher
\* than one returned
Nearest(results, candidates) ==
    /\ Cardinality(Positions(results)) = Len(results)
    /\ Positions(results) \subseteq candidates
    /\ \A i \in candidates \ Positions(results) :
         \A j \in Positions(results) : ScoreOf(i) <= ScoreOf(j)

Tagged(results) ==
    \A i \in 1..Len(results) :
        /\ results[i].namespace = metadata[results[i].pos].namespace
        /\ results[i].score = ScoreOf(results[i].pos)
        /\ results[i].source_type =
             IF results[i].namespace = "knowledge" THEN "KNOWLEDGE" ELSE "MEMORY"

SearchAllResults(limit) ==
    /\ Len(documents) <= limit =>
         /\ Len(call.results) = Len(documents)
         /\ Positions(call.results) = 1..Len(documents)
    /\ Len(documents) > limit =>
         /\ Len(call.results) = limit
         /\ Nearest(call.results, 1..Len(documents))
    /\ Tagged(call.results)
    /\ NonIncreasing(call.results)

\* C12: search_all(query, limit) on a store of N <= limit entries returns
\* all N, each tagged KNOWLEDGE or MEMORY by its namespace, in non-increasing
\* score order; on a store of N > limit entries it returns exactly the limit
\* nearest entries, whatever their namespaces.
C12_SearchAll ==
    (call.op = "search_all" /\ ~call.raised) => SearchAllResults(call.limit)

\* The same for the limits of 1 and more
C12_SearchAll_PositiveLimit ==
    (call.op = "search_all" /\ ~call.raised /\ call.limit >= 1) =>
        SearchAllResults(call.limit)

\* Entry i is in the namespace the search asked for
Matches(i) ==
    call.namespace # NoNamespace => metadata[i].namespace = call.namespace

\* What search(query, namespace, limit) returns of a store of N entries: at
\* most limit results, best score first, each a matching entry among the
\* k = min(3 * limit, N) nearest; and all of the matching entries that are
\* among the k nearest however ties are ordered, unless limit were found
SearchResults(limit) ==
    LET N == Len(documents)
        k == Min(3 * limit, N)
        Higher(i) == {j \in 1..N : ScoreOf(j) > ScoreOf(i)}
        NotLower(i) == {j \in (1..N) \ {i} : ScoreOf(j) >= ScoreOf(i)}
    IN  /\ Len(call.results) <= limit
        /\ NonIncreasing(call.results)
        /\ Cardinality(Positions(call.results)) = Len(call.results)
        /\ \A i \in Positions(call.results) :
             /\ i \in 1..N
             /\ Matches(i)
             /\ Cardinality(Higher(i)) < k
        /\ \A r \in 1..Len(call.results) :
             call.results[r].score = ScoreOf(call.results[r].pos)
        /\ Len(call.results) < limit =>
             \A i \in 1..N :
                 Matches(i) /\ Cardinality(NotLower(i)) < k
                     => i \in Positions(call.results)

\* C20: search(query, namespace, limit) asks for k = min(3 * limit, N)
\* neighbours, stops once limit matches are collected and returns at most
\* limit results in non-increasing score order, for every limit >= 0 and
\* every store size N.
C20_SearchBound ==
    (call.op = "search" /\ ~call.raised) => SearchResults(call.limit)

\* The same for the limits of 1 and more
C20_SearchBound_PositiveLimit ==
    (call.op = "search" /\ ~call.raised /\ call.limit >= 1)
        => SearchResults(call.limit)

\* C24: when add has returned and its own save succeeded, the snapshot on
\* disk is the whole store in memory: a store constructed over it now would
\* hold the same index, metadata and documents, whatever became of the
\* saves of the calls before.
C24_WholeSnapshot ==
    (call.op = "add" /\ ~call.raised /\ call.save = "ok") =>
        /\ disk.index = File(WriteIndex(index))
        /\ disk.metadata = File(JsonDump(metadata))
        /\ disk.documents = File(PickleDump(documents))
        /\ _load_existing_data(disk) =
             [index |-> index, metadata |-> metadata, documents |-> documents]

\* An add has returned after a successful save on a store of two entries,
\* the first of which a search has touched since it was added
C24_Witness ==
    /\ call.op = "add" /\ ~call.raised /\ call.save = "ok"
    /\ Len(documents) = 2
    /\ metadata[1].access_count = 1
    /\ PickleLoad(disk.documents.data) = documents
    /\ JsonLoad(disk.metadata.data)[1].access_count = 1

\* The fields of an entry that are set when it is added
FixedFields == {"id", "namespace", "timestamp", "utility_score", "tier"}

\* Entry i before the step is entry j after it, with the content and the
\* fixed fields it had
SameEntry(i, j) ==
    /\ documents'[j] = documents[i]
    /\ \A f \in FixedFields : metadata'[j][f] = metadata[i][f]

\* ... and with all of its metadata as it was
Untouched(i, j) == SameEntry(i, j) /\ metadata'[j] = metadata[i]

\* ... and with one access more, the last of them now
Touched(i) ==
    /\ SameEntry(i, i)
    /\ DOMAIN metadata'[i] = DOMAIN metadata[i]
    /\ metadata'[i].access_count = metadata[i].access_count + 1
    /\ metadata'[i].last_accessed = <<now>>
    /\ \A f \in DOMAIN metadata[i] \ {"access_count", "last_accessed"} :
         metadata'[i][f] = metadata[i][f]

StoreUnchanged == UNCHANGED <<index, documents, metadata>>

\* The entries a clear(namespace) keeps, each at the position it moves to
KeptAsTheyWere(namespace) ==
    LET Kept(i) == metadata[i].namespace # namespace
        kept == {i \in 1..Len(metadata) : Kept(i)}
    IN  /\ Len(metadata') = Cardinality(kept)
        /\ Len(documents') = Cardinality(kept)
        /\ \A i \in kept :
             Untouched(i, Cardinality({m \in 1..i : Kept(m)}))

\* C22: search and search_all add 1 to access_count and set last_accessed
\* for exactly the entries they return and change nothing else of the
\* store's entries; no call changes the content, id, namespace, timestamp,
\* utility_score or tier of an entry that stays in the store; add,
\* clear(namespace), count and stats change no access_count, and a search
\* changes none of an entry outside the namespace it asked for.
C22_LifecycleFrame ==
    [][/\ call'.op \in {"search", "search_all"} =>
            IF call'.raised THEN StoreUnchanged
            ELSE /\ UNCHANGED <<index, documents>>
                 /\ Len(metadata') = Len(metadata)
                 /\ \A i \in 1..Len(metadata) :
                      IF i \in Positions(call'.results)
                      THEN Touched(i)
                      ELSE Untouched(i, i)
                 /\ call'.op = "search" /\ call'.namespace # NoNamespace =>
                      \A i \in 1..Len(metadata) :
                          metadata[i].namespace # call'.namespace => Untouched(i, i)
       /\ call'.op = "add" =>
            IF call'.raised THEN StoreUnchanged
            ELSE /\ Len(metadata') = Len(metadata) + 1
                 /\ \A i \in 1..Len(metadata) : Untouched(i, i)
       /\ call'.op = "clear" /\ call'.namespace # NoNamespace =>
            IF call'.raised THEN StoreUnchanged
            ELSE KeptAsTheyWere(call'.namespace)
       /\ call'.op \in {"count", "stats"} => StoreUnchanged]_vars

\* A search of one namespace has returned one of two entries: that one has
\* been accessed once, now, the other one never
C22_Witness ==
    /\ call.op = "search" /\ ~call.raised
    /\ call.namespace = "memory"
    /\ Len(metadata) = 2
    /\ Positions(call.results) = {2}
    /\ metadata[2].access_count = 1 /\ metadata[2].last_accessed = <<now>>
    /\ metadata[1].namespace = "knowledge"
    /\ metadata[1].access_count = 0 /\ metadata[1].last_accessed = None

\* C25: a clear(namespace) that returns leaves at every position i of the
\* index the embedding of documents[i], and as metadata[i] and documents[i]
\* the metadata and the content of one of the entries it kept, in their
\* order; one in which an embedding call raises leaves the index, the
\* documents, the metadata and the snapshot as they were.
C25_RebuildCorrespondence ==
    [][(call'.op = "clear" /\ call'.namespace # NoNamespace) =>
         IF call'.raised
         THEN UNCHANGED <<index, documents, metadata, disk>>
         ELSE /\ Len(index') = Len(documents')
              /\ \A i \in 1..Len(documents') : index'[i] = Encode(documents'[i])
              /\ KeptAsTheyWere(call'.namespace)]_vars

\* The second of three entries has been cleared away: the third is now the
\* second, the two vectors differ and each is that of its document
C25_Witness ==
    /\ call.op = "clear" /\ call.namespace = "memory" /\ ~call.raised
    /\ call.save = "ok"
    /\ documents = << <<"b", "b">>, <<"a">> >>
    /\ index = <<Encode(<<"b", "b">>), Encode(<<"a">>)>>
    /\ index[1] # index[2]
    /\ metadata[1].id[2] = 0 /\ metadata[2].id[2] = 2

\* The invocations of the function a wrapper call has made so far
Invocations == Len(rt.log)
AllRaisedRetryErrors ==
    \A i \in 1..Len(rt.log) :
        "raised" \in DOMAIN rt.log[i] /\ rt.log[i].raised \in RetryErrors

\* C26: a function wrapped by with_retry(max_retries) is invoked at most
\* max_retries + 1 times; the first invocation that returns is the last
\* one made, and its value is what the wrapper returns; when every
\* invocation raised an exception of retry_exceptions, there were
\* max_retries + 1 of them and the wrapper raises the exception of the last.
C26_Retry ==
    rt.pc # "idle" =>
        /\ Invocations <= rt.max_retries + 1
        /\ \A i \in 1..(Invocations - 1) : "raised" \in DOMAIN rt.log[i]
        /\ rt.pc = "returned" <=>
             Invocations >= 1 /\ "returned" \in DOMAIN rt.log[Invocations]
        /\ rt.pc = "returned" => rt.result = rt.log[Invocations].returned
        /\ (rt.pc = "raised" /\ AllRaisedRetryErrors) =>
             /\ Invocations = rt.max_retries + 1
             /\ rt.exception = rt.log[Invocations].raised

\* Three invocations under max_retries = 2 have raised, the first and the
\* last different exceptions, and the wrapper has raised the last one
C26_Witness ==
    /\ rt.pc = "raised"
    /\ rt.max_retries = 2
    /\ Invocations = 3
    /\ AllRaisedRetryErrors
    /\ rt.log[1].raised # rt.log[3].raised
    /\ rt.exception = rt.log[3].raised
    /\ rt.sleeps = <<0, 1>>

\* C27: after an add_memory call that returned, the last metadata record
\* holds the returned id, access_count 0 and last_accessed None, whatever
\* attributes the caller passed.
C27_ReturnedIdStored ==
    (call.op = "add" /\ ~call.raised) =>
        /\ metadata[Len(metadata)].id = call.id
        /\ metadata[Len(metadata)].access_count = 0
        /\ metadata[Len(metadata)].last_accessed = None

\* The same for the calls whose attributes are named like none of the
\* fields add_memory sets.
C27_ReturnedIdStored_OtherNames ==
    (/\ call.op = "add"
     /\ ~call.raised
     /\ DOMAIN call.kwargs \cap {"id", "access_count", "last_accessed"} = {}) =>
        /\ metadata[Len(metadata)].id = call.id
        /\ metadata[Len(metadata)].access_count = 0
        /\ metadata[Len(metadata)].last_accessed = None

\* C21: a search of namespace X with a limit of 1 or more returns
\* min(limit, count(X)) results, limit of them whenever X holds as many,
\* whatever the other namespaces hold.
C21_OverFetchComplete ==
    (call.op = "search" /\ ~call.raised /\ call.namespace # NoNamespace
       /\ call.limit >= 1)
        => Len(call.results) = Min(call.limit, EntryCount(metadata, call.namespace))

(***************************************************************************)
(* Properties of the loader.                                               *)
(***************************************************************************)
\* A load without force_reload that directly follows a load without
\* force_reload: no file was written or removed in between
SecondLoad ==
    /\ call.op = "load" /\ ~call.force_reload
    /\ call'.op = "load" /\ ~call'.force_reload

AddsNothing ==
    /\ index' = index
    /\ documents' = documents
    /\ metadata' = metadata
    /\ manifest' = manifest
    /\ call'.summary.chunks_created = 0

ErrorFiles(summary) == {summary.errors[i].file : i \in 1..Len(summary.errors)}
ProcessedFiles(summary) ==
    {summary.processed_files[i] : i \in 1..Len(summary.processed_files)}

\* The file is as the manifest recorded it, and the load is not forced
Unchanged(path) ==
    /\ ~call'.force_reload
    /\ path \in DOMAIN manifest.processed_files
    /\ manifest.processed_files[path].hash = _get_file_hash(files[path])

\* C16: a load returns a summary that counts every file of the directory,
\* and every file is accounted for whatever happened to the files before it:
\* it is skipped as unchanged, or it is named in summary.errors, or it is
\* processed, its manifest entry holding its current fingerprint.
C16_FailureIsolation ==
    [][call'.op = "load" =>
         /\ call'.summary.files_discovered = Cardinality(DOMAIN files)
         /\ \A path \in DOMAIN files :
              \/ Unchanged(path) /\ path \notin ErrorFiles(call'.summary)
                                 /\ path \notin ProcessedFiles(call'.summary)
              \/ path \in ErrorFiles(call'.summary)
                   /\ path \notin ProcessedFiles(call'.summary)
              \/ /\ path \in ProcessedFiles(call'.summary)
                 /\ path \notin ErrorFiles(call'.summary)
                 /\ path \in DOMAIN manifest'.processed_files
                 /\ manifest'.processed_files[path].hash = _get_file_hash(files[path])]_vars

C16_Witness ==
    /\ call.op = "load"
    /\ DOMAIN files = Paths
    /\ Len(call.summary.errors) = 1
    /\ call.summary.errors[1] =
         [kind |-> "exception", file |-> "a.txt", e |-> "add_memory"]
    /\ call.summary.processed_files = <<"b.txt">>
    /\ "b.txt" \in DOMAIN manifest.processed_files
    /\ Len(documents) = 2

\* The files of which the insertion of some chunk raised
InsertionFailed(summary) ==
    {summary.errors[i].file :
        i \in {j \in 1..Len(summary.errors) :
                  /\ summary.errors[j].kind = "exception"
                  /\ summary.errors[j].e = "add_memory"}}

\* The manifest entry of the file is after the step what it was before it
EntryLeft(path) ==
    /\ (path \in DOMAIN manifest'.processed_files)
          = (path \in DOMAIN manifest.processed_files)
    /\ path \in DOMAIN manifest.processed_files
          => manifest'.processed_files[path] = manifest.processed_files[path]

\* The manifest holds the fingerprint the file has now
HoldsFingerprint(path) ==
    /\ path \in DOMAIN manifest.processed_files
    /\ manifest.processed_files[path].hash = _get_file_hash(files[path])

\* A load that follows a load directly and is not forced
NextLoad == call.op = "load" /\ call'.op = "load" /\ ~call'.force_reload

\* The load passes the file over as unchanged: it neither processes it nor
\* records an error for it
Skipped(path) ==
    path \notin ErrorFiles(call'.summary) \union ProcessedFiles(call'.summary)

\* The files whose fingerprint could not be read
FingerprintFailed(summary) ==
    {summary.errors[i].file :
        i \in {j \in 1..Len(summary.errors) :
                  /\ summary.errors[j].kind = "exception"
                  /\ summary.errors[j].e = "_get_file_hash"}}

\* C17 as the specification states it: a load in which the insertion of a
\* chunk of a file raises leaves the file's manifest entry as it was, and the
\* load without force_reload that follows it takes the file up again.
C17_ManifestAfterChunks_Original ==
    /\ [][call'.op = "load" =>
            \A path \in InsertionFailed(call'.summary) : EntryLeft(path)]_vars
    /\ [][NextLoad =>
            \A path \in InsertionFailed(call.summary) : ~Skipped(path)]_vars

\* C17: a load in which the insertion of a chunk of a file raises leaves the
\* file's manifest entry as it was.  The load without force_reload that
\* follows it takes the file up again when that entry does not hold the
\* file's current fingerprint; the entry holds it only after a forced reload
\* of a file that had not changed, and then the load passes the file over
\* once it has read its fingerprint.
C17_ManifestAfterChunks ==
    /\ [][call'.op = "load" =>
            \A path \in InsertionFailed(call'.summary) : EntryLeft(path)]_vars
    /\ [][NextLoad =>
            \A path \in InsertionFailed(call.summary) :
                IF HoldsFingerprint(path)
                THEN /\ call.force_reload
                     /\ Skipped(path) \/ path \in FingerprintFailed(call'.summary)
                ELSE ~Skipped(path)]_vars

\* The second chunk of a.txt raised: its first chunk is stored, it has no
\* manifest entry; the first chunk of the changed b.txt raised: its entry
\* holds the fingerprint of the text it had
C17_Witness ==
    /\ call.op = "load" /\ ~call.force_reload
    /\ InsertionFailed(call.summary) = Paths
    /\ "a.txt" \notin DOMAIN manifest.processed_files
    /\ "b.txt" \in DOMAIN manifest.processed_files
    /\ ~HoldsFingerprint("b.txt")
    /\ \E i \in 1..Len(metadata) : metadata[i].source_file = "a.txt"

\* Two entries are the same chunk of the same version of a file
SameChunk(i, j) ==
    /\ metadata[i].namespace = KNOWLEDGE_NAMESPACE
    /\ metadata[j].namespace = KNOWLEDGE_NAMESPACE
    /\ metadata[i].source_file = metadata[j].source_file
    /\ metadata[i].chunk_index = metadata[j].chunk_index
    /\ metadata[i].total_chunks = metadata[j].total_chunks
    /\ metadata[i].char_start = metadata[j].char_start
    /\ metadata[i].char_end = metadata[j].char_end
    /\ documents[i] = documents[j]

\* C8: across any sequence of loads with unchanged or changed files, no chunk
\* of a version of a source file is stored more than once.
C8_ExactlyOnce ==
    \A i, j \in 1..Len(metadata) : SameChunk(i, j) => i = j

\* C28: in the summary a load returns, every discovered file is counted in
\* exactly one of files_processed, files_skipped and errors:
\* files_discovered = files_processed + files_skipped + len(errors) and
\* len(processed_files) = files_processed, no file being both in
\* processed_files and in errors or named twice.
C28_SummaryAccounting ==
    call.op = "load" =>
        LET summary == call.summary
        IN  /\ summary.files_discovered = Cardinality(DOMAIN files)
            /\ summary.files_discovered =
                   summary.files_processed + summary.files_skipped
                       + Len(summary.errors)
            /\ Len(summary.processed_files) = summary.files_processed
            /\ Cardinality(ProcessedFiles(summary)) = Len(summary.processed_files)
            /\ Cardinality(ErrorFiles(summary)) = Len(summary.errors)
            /\ ProcessedFiles(summary) \cap ErrorFiles(summary) = {}

\* A load of two files has skipped one as unchanged and caught the
\* exception of the other
C28_Witness ==
    /\ call.op = "load"
    /\ call.summary.files_discovered = 2
    /\ call.summary.files_skipped = 1
    /\ Len(call.summary.errors) = 1
    /\ call.summary.errors[1].kind = "exception"
    /\ call.summary.files_processed = 0

\* The knowledge entries of one source file in the store
EntriesOf(path) ==
    {i \in 1..Len(metadata) :
        /\ metadata[i].namespace = KNOWLEDGE_NAMESPACE
        /\ "source_file" \in DOMAIN metadata[i]
        /\ metadata[i].source_file = path}

\* C29: in every state reachable by loads, clear_knowledge and clears of
\* the store, a file the manifest records with n chunks has at least n
\* knowledge entries with that source_file in the store.
C29_ManifestStoreConsistent ==
    \A path \in DOMAIN manifest.processed_files :
        Cardinality(EntriesOf(path)) >= manifest.processed_files[path].chunks

\* C30: the chunks_created of the summary a load returns is the number of
\* knowledge entries the load added to the store.
C30_ChunksCreated ==
    [][call'.op = "load" =>
         call'.summary.chunks_created =
             MemoryCount(metadata', documents', KNOWLEDGE_NAMESPACE)
                 - MemoryCount(metadata, documents, KNOWLEDGE_NAMESPACE)]_vars

====
